---- MODULE Spec2Model ----
(***************************************************************************)
(* Position / plan lifecycle engine of AITrader                            *)
(* (src/src/executor/simulated_executor.py), the callers that drive it     *)
(* (src/main.py, src/src/collector/price_stream.py,                        *)
(* src/src/mcp/mcp_server.py) and its persistence (src/src/persistence.py).*)
(*                                                                         *)
(* Money, prices and amounts are integers.  The input sets below are       *)
(* chosen so that every division the code performs on a value that is      *)
(* stored (fee, PnL, margin, partial amount) is exact; comparisons whose   *)
(* division need not be exact are cross-multiplied.  Rates are kept as     *)
(* numerator / denominator pairs.                                          *)
(***************************************************************************)
EXTENDS Integers, Sequences, FiniteSets, TLC

VARIABLES
    total_balance,   \* SimulatedExecutor.total_balance
    positions,       \* SimulatedExecutor.positions : id -> Position
    plans,           \* SimulatedExecutor.plans     : id -> TradingPlan
    trade_history,   \* SimulatedExecutor.trade_history
    last_price,      \* SimulatedExecutor.last_price (None until seeded)
    saved,           \* content of the state file written by save_state
    ids,             \* number of position / plan ids handed out by uuid4 so far
    feed,            \* the price-feed worker thread (asyncio.to_thread)
    cmd,             \* the decision loop's thread, inside handle_tool_call
    ncmd,            \* number of commands that have succeeded so far
    fired            \* per plan: the positions its open_position calls produced

vars == <<total_balance, positions, plans, trade_history, last_price, saved,
          ids, feed, cmd, ncmd, fired>>

---------------------------------------------------------------------------
(* Bounds of the model *)

\* ids 1..MaxPositions are the uuids open_position can hand out
MaxPositions == 2
\* ids 1..MaxPlans are the uuids create_plan can hand out
MaxPlans == 1
\* open_position calls counted per plan
MaxAttempts == 2
\* commands that succeed in one run (failed commands and price updates are
\* not counted)
MaxCommands == 3

(* Program constants: the defaults of src/src/config.py *)
InitialBalance == 100000
FeeRateNum == 1
FeeRateDen == 10000
MaxPositionRatioNum == 3
MaxPositionRatioDen == 10
MaxLeverage == 20
MinStopLossPercentNum == 5
MinStopLossPercentDen == 100
\* ratios are carried in 1/RatioDen units; FullCloseRatio is the 0.9999 of
\* close_position
RatioDen == 10000
FullCloseRatio == 9999
\* save_state keeps trade_history[-100:]
HistoryKept == 100

\* Python's None, for last_price, close_price and absent keyword arguments:
\* a value no price, amount or leverage takes
None == -1

(* Input sets *)
Prices == {50, 100, 200}
Ratios == {0, 5000, 10000, 15000}
\* the orders drawn for open_position and create_plan: one that passes per
\* direction, and one per way of being refused
Order(direction, amount, leverage, stop_loss, take_profit) ==
    [direction |-> direction, amount |-> amount, leverage |-> leverage,
     stop_loss |-> stop_loss, take_profit |-> take_profit]
Orders ==
    {Order("long", 20000, 2, 50, 200),
     Order("short", 20000, 2, 200, 50),
     Order("sideways", 20000, 2, 50, 200),
     Order("long", 20000, 0, 50, 200),
     Order("long", 20000, 21, 50, 200),
     Order("long", 40000, 2, 50, 200),
     Order("long", 20000, 2, 200, 200)}
\* the values drawn for the keyword arguments of modify_position and
\* modify_plan
Edits == [price |-> 100, amount |-> 40000, leverage |-> 0]
PosIds == 1..MaxPositions
PlanIds == 1..MaxPlans

---------------------------------------------------------------------------
(* The enums.  A member is written by its name; its value is the string   *)
(* label that commands carry and that the state file stores.               *)

\* Direction(literal): the member, or "ValueError"
Direction(literal) ==
    IF literal = "long" THEN "LONG"
    ELSE IF literal = "short" THEN "SHORT"
    ELSE "ValueError"

\* PositionStatus(literal)
PositionStatus(literal) ==
    IF literal = "open" THEN "OPEN"
    ELSE IF literal = "closed" THEN "CLOSED"
    ELSE "ValueError"

\* PlanStatus(literal)
PlanStatus(literal) ==
    IF literal = "pending" THEN "PENDING"
    ELSE IF literal = "triggered" THEN "TRIGGERED"
    ELSE IF literal = "cancelled" THEN "CANCELLED"
    ELSE "ValueError"

\* member.value, for the members of the three enums
EnumValue(member) ==
    CASE member = "LONG" -> "long"
      [] member = "SHORT" -> "short"
      [] member = "OPEN" -> "open"
      [] member = "CLOSED" -> "closed"
      [] member = "PENDING" -> "pending"
      [] member = "TRIGGERED" -> "triggered"
      [] member = "CANCELLED" -> "cancelled"

---------------------------------------------------------------------------
(* Position and TradingPlan methods *)

\* Position.margin_used
margin_used(pos) == pos.amount \div pos.leverage

\* the directional PnL formula shared by unrealized_pnl and close_position
directional_pnl(direction, entry_price, amount, price) ==
    IF direction = "LONG"
    THEN ((price - entry_price) * amount) \div entry_price
    ELSE ((entry_price - price) * amount) \div entry_price

\* Position.unrealized_pnl
unrealized_pnl(pos, current_price) ==
    IF pos.status = "CLOSED" THEN 0
    ELSE directional_pnl(pos.direction, pos.entry_price, pos.amount, current_price)

\* Position.check_stop_loss_take_profit with the take-profit test of a short
\* position left out
Position_check_stop_loss_only_short(pos, current_price) ==
    IF pos.direction = "LONG"
    THEN IF current_price <= pos.stop_loss THEN "stop_loss"
         ELSE IF current_price >= pos.take_profit THEN "take_profit"
         ELSE "none"
    ELSE IF current_price >= pos.stop_loss THEN "stop_loss"
         ELSE "none"

\* Position.check_stop_loss_take_profit
Position_check_stop_loss_take_profit(pos, current_price) ==
    IF pos.direction = "LONG"
    THEN IF current_price <= pos.stop_loss THEN "stop_loss"
         ELSE IF current_price >= pos.take_profit THEN "take_profit"
         ELSE "none"
    ELSE IF current_price >= pos.stop_loss THEN "stop_loss"
         ELSE IF current_price <= pos.take_profit THEN "take_profit"
         ELSE "none"

\* TradingPlan.check_trigger
check_trigger(plan, current_price, last) ==
    IF plan.status # "PENDING" THEN FALSE
    ELSE IF plan.direction = "LONG"
         THEN last < plan.trigger_price /\ plan.trigger_price <= current_price
         ELSE last > plan.trigger_price /\ plan.trigger_price >= current_price

---------------------------------------------------------------------------
(* The executor's state as one record, threaded through the methods *)

Ledger == [total_balance |-> total_balance, positions |-> positions,
           plans |-> plans, trade_history |-> trade_history,
           last_price |-> last_price, saved |-> saved, ids |-> ids,
           writable |-> TRUE]

\* the same executor while the state file cannot be written: save_state will
\* fail
Unwritable(S) == [S EXCEPT !.writable = FALSE]

\* sum(pos.margin_used for pos in self.positions.values())
RECURSIVE MarginSum(_, _)
MarginSum(pos, dom) ==
    IF dom = {} THEN 0
    ELSE LET k == CHOOSE x \in dom : TRUE
         IN margin_used(pos[k]) + MarginSum(pos, dom \ {k})

\* sum(pos.unrealized_pnl(self.last_price) for pos in self.positions.values())
RECURSIVE UnrealizedSum(_, _, _)
UnrealizedSum(pos, dom, price) ==
    IF dom = {} THEN 0
    ELSE LET k == CHOOSE x \in dom : TRUE
         IN unrealized_pnl(pos[k], price) + UnrealizedSum(pos, dom \ {k}, price)

\* SimulatedExecutor.get_account_info
get_account_info(S) ==
    LET mu == MarginSum(S.positions, DOMAIN S.positions)
        up == IF S.last_price # None
              THEN UnrealizedSum(S.positions, DOMAIN S.positions, S.last_price)
              ELSE 0
    IN [total_balance |-> S.total_balance,
        available |-> S.total_balance - mu,
        margin_used |-> mu,
        unrealized_pnl |-> up]

Abs(x) == IF x < 0 THEN -x ELSE x

\* amount / leverage > available, for leverage # 0, without rounding
MarginExceeds(amount, leverage, available) ==
    IF leverage > 0 THEN amount > available * leverage
    ELSE amount < available * leverage

\* SimulatedExecutor.validate_position: "ok", the violated rule, or the
\* exception the division raises
validate_position(S, amount, leverage, stop_loss, entry_price, direction) ==
    IF leverage = 0 THEN "ZeroDivisionError"
    ELSE IF MarginExceeds(amount, leverage, get_account_info(S).available)
    THEN "insufficient_margin"
    ELSE IF amount * MaxPositionRatioDen > S.total_balance * MaxPositionRatioNum
    THEN "position_ratio"
    ELSE IF leverage > MaxLeverage
    THEN "max_leverage"
    ELSE IF entry_price = 0 THEN "ZeroDivisionError"
    ELSE IF Abs(entry_price - stop_loss) * MinStopLossPercentDen
              < MinStopLossPercentNum * entry_price
    THEN "stop_loss_distance"
    ELSE IF direction = "LONG" /\ stop_loss >= entry_price
    THEN "long_stop_above_entry"
    ELSE IF direction = "SHORT" /\ stop_loss <= entry_price
    THEN "short_stop_below_entry"
    ELSE "ok"

---------------------------------------------------------------------------
(* Persistence: the change hook and the state file *)

\* the first n elements of a sequence: seq[:n]
Head_n(seq, n) ==
    IF Len(seq) <= n THEN seq ELSE SubSeq(seq, 1, n)

\* the last n elements of a sequence: seq[-n:]
Tail_n(seq, n) ==
    IF Len(seq) <= n THEN seq ELSE SubSeq(seq, Len(seq) - n + 1, Len(seq))

\* StatePersistence._serialize_positions
serialize_positions(pos) ==
    [k \in DOMAIN pos |->
        [pos[k] EXCEPT !.direction = EnumValue(pos[k].direction),
                       !.status = EnumValue(pos[k].status)]]

\* StatePersistence._serialize_plans
serialize_plans(pl) ==
    [k \in DOMAIN pl |->
        [pl[k] EXCEPT !.direction = EnumValue(pl[k].direction),
                      !.status = EnumValue(pl[k].status)]]

\* StatePersistence._deserialize_positions.  Its import of Position,
\* Direction and PositionStatus from the package src.executor is taken to
\* succeed, as main.py's import of SimulatedExecutor from that package does.
deserialize_positions(data) ==
    [k \in DOMAIN data |->
        [data[k] EXCEPT !.direction = Direction(data[k].direction),
                        !.status = PositionStatus(data[k].status)]]

\* _deserialize_plans with every plan given the default status of TradingPlan
deserialize_plans_pending(data) ==
    [k \in DOMAIN data |->
        [data[k] EXCEPT !.direction = Direction(data[k].direction),
                        !.status = "PENDING"]]

\* StatePersistence._deserialize_plans
deserialize_plans(data) ==
    [k \in DOMAIN data |->
        [data[k] EXCEPT !.direction = Direction(data[k].direction),
                        !.status = PlanStatus(data[k].status)]]

\* the file before the first save_state
NoFile == [exists |-> FALSE]

\* the members of the three enums: the objects that have a .value
EnumMembers ==
    {"LONG", "SHORT", "OPEN", "CLOSED", "PENDING", "TRIGGERED", "CANCELLED"}

\* lines 20-21 of save_state raise nothing: direction and status of every
\* position and plan are enum members
Serializable(S) ==
    /\ \A k \in DOMAIN S.positions :
          S.positions[k].direction \in EnumMembers
             /\ S.positions[k].status \in EnumMembers
    /\ \A k \in DOMAIN S.plans :
          S.plans[k].direction \in EnumMembers
             /\ S.plans[k].status \in EnumMembers

\* StatePersistence.save_state: the "executor" object of the state file; an
\* exception raised while the state is put together is caught before the
\* file is opened
save_state(S) ==
    IF ~Serializable(S) THEN S
    ELSE
    [S EXCEPT !.saved =
        [exists |-> TRUE,
         total_balance |-> S.total_balance,
         last_price |-> S.last_price,
         positions |-> serialize_positions(S.positions),
         plans |-> serialize_plans(S.plans),
         trade_history |-> Tail_n(S.trade_history, HistoryKept)]]

\* _trigger_state_change with the hook never called
no_state_change(S) == S

\* _trigger_state_change where a save that fails puts the executor back to
\* the state last saved
trigger_state_change_rollback(S) ==
    IF S.writable THEN save_state(S)
    ELSE IF ~S.saved.exists THEN S
    ELSE [S EXCEPT !.total_balance = S.saved.total_balance,
                   !.last_price = S.saved.last_price,
                   !.positions = deserialize_positions(S.saved.positions),
                   !.plans = deserialize_plans(S.saved.plans),
                   !.trade_history = S.saved.trade_history]

\* SimulatedExecutor._trigger_state_change, with on_state_change set to
\* AITrader.save_state_callback.  A save_state that fails catches its own
\* exception and returns False, and the callback and _trigger_state_change
\* catch any other: the file keeps what it held (or can no longer be read,
\* which load_state covers) and the executor is not touched.
trigger_state_change(S) ==
    IF S.writable THEN save_state(S) ELSE S

\* the cycle counts save_state is called with
CycleCounts == {0, 1, 7}

\* StatePersistence.save_state(executor, cycle_count): the state it writes,
\* the "executor" object together with the "cycle_count" entry
state_file(S, cycle_count) ==
    [cycle_count |-> cycle_count] @@ save_state(S).saved

\* load_state returning what the file last held even when it cannot be read
load_state_unchecked(file, readable) == file

\* StatePersistence.load_state: None (here NoFile) when the file does not
\* exist or when reading or parsing it raises
load_state(file, readable) ==
    IF ~file.exists THEN NoFile
    ELSE IF ~readable THEN NoFile
    ELSE file

---------------------------------------------------------------------------
(* Commands.  Each returns [S |-> the ledger after, result |-> what the    *)
(* method returns, raised |-> whether it left by an exception].  The part  *)
(* of a method that only reads (its checks) and the part that writes are   *)
(* separate operators, so that the two threads can be interleaved between  *)
(* them.                                                                   *)

Fail(S, error) == [S |-> S, result |-> [success |-> FALSE, error |-> error],
                   raised |-> FALSE]
Raise(S, error) == [S |-> S, result |-> [success |-> FALSE, error |-> error],
                    raised |-> TRUE]

\* open_position with the direction literal checked and validate_position
\* left out
open_check_direction_only(S, direction, amount, leverage, stop_loss, current_price) ==
    IF Direction(direction) = "ValueError" THEN "invalid_direction" ELSE "ok"

\* open_position, lines 163-170: the direction literal and the risk rules
open_check(S, direction, amount, leverage, stop_loss, current_price) ==
    IF Direction(direction) = "ValueError" THEN "invalid_direction"
    ELSE validate_position(S, amount, leverage, stop_loss, current_price,
                           Direction(direction))

\* amount * fee_rate
Fee(amount) == (amount * FeeRateNum) \div FeeRateDen

\* open_position with the fee recorded and not debited
open_apply_undebited(S, direction, amount, leverage, stop_loss, take_profit, current_price) ==
    LET id == S.ids.pos + 1
        position == [direction |-> Direction(direction),
                     entry_price |-> current_price,
                     amount |-> amount,
                     leverage |-> leverage,
                     stop_loss |-> stop_loss,
                     take_profit |-> take_profit,
                     status |-> "OPEN",
                     close_price |-> None,
                     realized_pnl |-> 0]
        record == [type |-> "open_position", position_id |-> id,
                   direction |-> direction, entry_price |-> current_price,
                   amount |-> amount, leverage |-> leverage,
                   fee |-> Fee(amount)]
    IN trigger_state_change(
         [S EXCEPT !.positions = S.positions @@ (id :> position),
                   !.trade_history = Append(S.trade_history, record),
                   !.ids = [S.ids EXCEPT !.pos = id]])

\* open_position, lines 172-199: fee, the new position, the record, the hook
open_apply(S, direction, amount, leverage, stop_loss, take_profit, current_price) ==
    LET id == S.ids.pos + 1
        position == [direction |-> Direction(direction),
                     entry_price |-> current_price,
                     amount |-> amount,
                     leverage |-> leverage,
                     stop_loss |-> stop_loss,
                     take_profit |-> take_profit,
                     status |-> "OPEN",
                     close_price |-> None,
                     realized_pnl |-> 0]
        record == [type |-> "open_position", position_id |-> id,
                   direction |-> direction, entry_price |-> current_price,
                   amount |-> amount, leverage |-> leverage,
                   fee |-> Fee(amount)]
    IN trigger_state_change(
         [S EXCEPT !.total_balance = S.total_balance - Fee(amount),
                   !.positions = S.positions @@ (id :> position),
                   !.trade_history = Append(S.trade_history, record),
                   !.ids = [S.ids EXCEPT !.pos = id]])

\* open_position with the fee debited before the checks of lines 163-170
open_position_fee_first(S, direction, amount, leverage, stop_loss, take_profit, current_price) ==
    LET debited == [S EXCEPT !.total_balance = S.total_balance - Fee(amount)]
        chk == open_check(S, direction, amount, leverage, stop_loss, current_price)
    IN IF chk = "ZeroDivisionError" THEN Raise(debited, chk)
       ELSE IF chk # "ok" THEN Fail(debited, chk)
       ELSE [S |-> open_apply(S, direction, amount, leverage, stop_loss,
                              take_profit, current_price),
             result |-> [success |-> TRUE, position_id |-> S.ids.pos + 1,
                         entry_price |-> current_price, fee |-> Fee(amount)],
             raised |-> FALSE]

\* SimulatedExecutor.open_position
open_position(S, direction, amount, leverage, stop_loss, take_profit, current_price) ==
    LET chk == open_check(S, direction, amount, leverage, stop_loss, current_price)
    IN IF chk = "ZeroDivisionError" THEN Raise(S, chk)
       ELSE IF chk # "ok" THEN Fail(S, chk)
       ELSE [S |-> open_apply(S, direction, amount, leverage, stop_loss,
                              take_profit, current_price),
             result |-> [success |-> TRUE, position_id |-> S.ids.pos + 1,
                         entry_price |-> current_price, fee |-> Fee(amount)],
             raised |-> FALSE]

\* close_position without the status test of lines 216-217
close_check_nostatus(S, position_id, ratio) ==
    IF position_id \notin DOMAIN S.positions THEN "not_found"
    ELSE IF ratio <= 0 \/ ratio > RatioDen THEN "bad_ratio"
    ELSE "ok"

\* close_position with the ratio test of line 212 as ratio < 0 or ratio > 1
close_check_allows_zero(S, position_id, ratio) ==
    IF position_id \notin DOMAIN S.positions THEN "not_found"
    ELSE IF ratio < 0 \/ ratio > RatioDen THEN "bad_ratio"
    ELSE IF S.positions[position_id].status = "CLOSED" THEN "already_closed"
    ELSE "ok"

\* close_position, lines 209-217: the id, the ratio, the status
close_check(S, position_id, ratio) ==
    IF position_id \notin DOMAIN S.positions THEN "not_found"
    ELSE IF ratio <= 0 \/ ratio > RatioDen THEN "bad_ratio"
    ELSE IF S.positions[position_id].status = "CLOSED" THEN "already_closed"
    ELSE "ok"

\* close_position with no fee taken from the realized PnL
close_locals_nofee(S, position_id, ratio, current_price) ==
    LET position == S.positions[position_id]
        close_amount == (position.amount * ratio) \div RatioDen
        pnl == directional_pnl(position.direction, position.entry_price,
                               close_amount, current_price)
    IN [close_amount |-> close_amount, fee |-> 0, realized_pnl |-> pnl]

\* close_position, lines 219-227: close_amount, fee and realized_pnl
close_locals(S, position_id, ratio, current_price) ==
    LET position == S.positions[position_id]
        close_amount == (position.amount * ratio) \div RatioDen
        fee == Fee(close_amount)
        pnl == directional_pnl(position.direction, position.entry_price,
                               close_amount, current_price)
    IN [close_amount |-> close_amount, fee |-> fee, realized_pnl |-> pnl - fee]

\* close_position with the else branch of lines 235-236 left out: a partial
\* close does not reduce the amount
close_apply_keeps_amount(S, position_id, ratio, current_price, loc) ==
    LET position == S.positions[position_id]
        after == IF ratio >= FullCloseRatio
                 THEN [position EXCEPT !.status = "CLOSED",
                                       !.close_price = current_price,
                                       !.realized_pnl = loc.realized_pnl]
                 ELSE position
        record == [type |-> "close_position", position_id |-> position_id,
                   close_price |-> current_price, ratio |-> ratio,
                   realized_pnl |-> loc.realized_pnl, fee |-> loc.fee]
    IN trigger_state_change(
         [S EXCEPT !.total_balance = S.total_balance + loc.realized_pnl,
                   !.positions = [S.positions EXCEPT ![position_id] = after],
                   !.trade_history = Append(S.trade_history, record)])

\* close_position, lines 228-248: the credit, the status or the amount, the
\* record, the hook
close_apply(S, position_id, ratio, current_price, loc) ==
    LET position == S.positions[position_id]
        after == IF ratio >= FullCloseRatio
                 THEN [position EXCEPT !.status = "CLOSED",
                                       !.close_price = current_price,
                                       !.realized_pnl = loc.realized_pnl]
                 ELSE [position EXCEPT !.amount =
                          (position.amount * (RatioDen - ratio)) \div RatioDen]
        record == [type |-> "close_position", position_id |-> position_id,
                   close_price |-> current_price, ratio |-> ratio,
                   realized_pnl |-> loc.realized_pnl, fee |-> loc.fee]
    IN trigger_state_change(
         [S EXCEPT !.total_balance = S.total_balance + loc.realized_pnl,
                   !.positions = [S.positions EXCEPT ![position_id] = after],
                   !.trade_history = Append(S.trade_history, record)])

\* SimulatedExecutor.close_position
close_position(S, position_id, ratio, current_price) ==
    LET chk == close_check(S, position_id, ratio)
        loc == close_locals(S, position_id, ratio, current_price)
    IN IF chk # "ok" THEN Fail(S, chk)
       ELSE [S |-> close_apply(S, position_id, ratio, current_price, loc),
             result |-> [success |-> TRUE, closed_amount |-> loc.close_amount,
                         realized_pnl |-> loc.realized_pnl, fee |-> loc.fee],
             raised |-> FALSE]

\* modify_position, lines 259-260: the id
modify_position_check(S, position_id) ==
    IF position_id \notin DOMAIN S.positions THEN "not_found" ELSE "ok"

\* modify_position storing both arguments, a None argument included
modify_position_apply_overwrites(S, position_id, stop_loss, take_profit) ==
    LET position == S.positions[position_id]
        after == [position EXCEPT !.stop_loss = stop_loss,
                                  !.take_profit = take_profit]
    IN trigger_state_change(
         [S EXCEPT !.positions = [S.positions EXCEPT ![position_id] = after]])

\* modify_position, lines 262-269: the supplied fields, the hook
modify_position_apply(S, position_id, stop_loss, take_profit) ==
    LET position == S.positions[position_id]
        after == [position EXCEPT
                    !.stop_loss = IF stop_loss # None THEN stop_loss ELSE @,
                    !.take_profit = IF take_profit # None THEN take_profit ELSE @]
    IN trigger_state_change(
         [S EXCEPT !.positions = [S.positions EXCEPT ![position_id] = after]])

\* SimulatedExecutor.modify_position
modify_position(S, position_id, stop_loss, take_profit) ==
    LET chk == modify_position_check(S, position_id)
    IN IF chk # "ok" THEN Fail(S, chk)
       ELSE [S |-> modify_position_apply(S, position_id, stop_loss, take_profit),
             result |-> [success |-> TRUE],
             raised |-> FALSE]

\* create_plan with the fee of open_position debited when the plan is stored
create_plan_apply_with_fee(S, trigger_price, direction, amount, leverage, stop_loss, take_profit) ==
    LET id == S.ids.plan + 1
        plan == [trigger_price |-> trigger_price,
                 direction |-> Direction(direction),
                 amount |-> amount,
                 leverage |-> leverage,
                 stop_loss |-> stop_loss,
                 take_profit |-> take_profit,
                 status |-> "PENDING"]
    IN trigger_state_change(
         [S EXCEPT !.total_balance = S.total_balance - Fee(amount),
                   !.plans = S.plans @@ (id :> plan),
                   !.ids = [S.ids EXCEPT !.plan = id]])

\* create_plan, lines 284-298: the new plan, the hook
create_plan_apply(S, trigger_price, direction, amount, leverage, stop_loss, take_profit) ==
    LET id == S.ids.plan + 1
        plan == [trigger_price |-> trigger_price,
                 direction |-> Direction(direction),
                 amount |-> amount,
                 leverage |-> leverage,
                 stop_loss |-> stop_loss,
                 take_profit |-> take_profit,
                 status |-> "PENDING"]
    IN trigger_state_change(
         [S EXCEPT !.plans = S.plans @@ (id :> plan),
                   !.ids = [S.ids EXCEPT !.plan = id]])

\* SimulatedExecutor.create_plan: the checks of open_position with the
\* trigger price as entry price, then the new plan
create_plan(S, trigger_price, direction, amount, leverage, stop_loss, take_profit) ==
    LET chk == open_check(S, direction, amount, leverage, stop_loss, trigger_price)
    IN IF chk = "ZeroDivisionError" THEN Raise(S, chk)
       ELSE IF chk # "ok" THEN Fail(S, chk)
       ELSE [S |-> create_plan_apply(S, trigger_price, direction, amount,
                                     leverage, stop_loss, take_profit),
             result |-> [success |-> TRUE, plan_id |-> S.ids.plan + 1],
             raised |-> FALSE]

\* the keyword arguments the modify_plan tool declares
PlanFields == {"trigger_price", "amount", "leverage", "stop_loss", "take_profit"}

\* modify_plan, lines 303-308: the id, the status
modify_plan_check(S, plan_id) ==
    IF plan_id \notin DOMAIN S.plans THEN "not_found"
    ELSE IF S.plans[plan_id].status # "PENDING" THEN "not_pending"
    ELSE "ok"

\* modify_plan, line 311: the plan has the attribute key and kwargs gives it
\* a value that is not None (a key outside PlanFields is drawn with a value
\* only)
Supplied(plan, kwargs, key) ==
    /\ key \in DOMAIN plan
    /\ key \in DOMAIN kwargs
    /\ key \in PlanFields => kwargs[key] # None

\* modify_plan, lines 310-314: setattr for each supplied key, the hook
modify_plan_apply(S, plan_id, kwargs) ==
    LET plan == S.plans[plan_id]
        after == [f \in DOMAIN plan |->
                    IF Supplied(plan, kwargs, f) THEN kwargs[f] ELSE plan[f]]
    IN trigger_state_change(
         [S EXCEPT !.plans = [S.plans EXCEPT ![plan_id] = after]])

\* SimulatedExecutor.modify_plan; kwargs maps each keyword given to its
\* value, which is None for a keyword of PlanFields left out
modify_plan(S, plan_id, kwargs) ==
    LET chk == modify_plan_check(S, plan_id)
    IN IF chk # "ok" THEN Fail(S, chk)
       ELSE [S |-> modify_plan_apply(S, plan_id, kwargs),
             result |-> [success |-> TRUE],
             raised |-> FALSE]

\* cancel_plan, lines 319-320: the id
cancel_plan_check(S, plan_id) ==
    IF plan_id \notin DOMAIN S.plans THEN "not_found" ELSE "ok"

\* cancel_plan, lines 322-325: the status, the hook
cancel_plan_apply(S, plan_id) ==
    trigger_state_change(
        [S EXCEPT !.plans = [S.plans EXCEPT ![plan_id].status = "CANCELLED"]])

\* SimulatedExecutor.cancel_plan
cancel_plan(S, plan_id) ==
    LET chk == cancel_plan_check(S, plan_id)
    IN IF chk # "ok" THEN Fail(S, chk)
       ELSE [S |-> cancel_plan_apply(S, plan_id),
             result |-> [success |-> TRUE],
             raised |-> FALSE]

\* the loop of get_positions over self.positions.values(), from position k
\* on: one entry per position whose status is open (pnl_percent and
\* hold_time_seconds left out)
RECURSIVE positions_from(_, _)
positions_from(S, k) ==
    IF k > S.ids.pos THEN <<>>
    ELSE IF k \notin DOMAIN S.positions \/ S.positions[k].status # "OPEN"
    THEN positions_from(S, k + 1)
    ELSE LET pos == S.positions[k]
         IN <<[position_id |-> k,
               direction |-> EnumValue(pos.direction),
               entry_price |-> pos.entry_price,
               current_price |-> S.last_price,
               amount |-> pos.amount,
               leverage |-> pos.leverage,
               unrealized_pnl |-> IF S.last_price # None
                                  THEN unrealized_pnl(pos, S.last_price) ELSE 0,
               stop_loss |-> pos.stop_loss,
               take_profit |-> pos.take_profit]>>
            \o positions_from(S, k + 1)

\* SimulatedExecutor.get_positions
get_positions(S) == positions_from(S, 1)

\* get_plans with the status test of line 356 left out
RECURSIVE plans_from_any_status(_, _)
plans_from_any_status(S, k) ==
    IF k > S.ids.plan THEN <<>>
    ELSE IF k \notin DOMAIN S.plans
    THEN plans_from_any_status(S, k + 1)
    ELSE LET plan == S.plans[k]
         IN <<[plan_id |-> k,
               trigger_price |-> plan.trigger_price,
               direction |-> EnumValue(plan.direction),
               amount |-> plan.amount,
               leverage |-> plan.leverage,
               stop_loss |-> plan.stop_loss,
               take_profit |-> plan.take_profit]>>
            \o plans_from_any_status(S, k + 1)

\* the loop of get_plans over self.plans.values(), from plan k on: one
\* entry per plan whose status is pending (symbol and create_time left out)
RECURSIVE plans_from(_, _)
plans_from(S, k) ==
    IF k > S.ids.plan THEN <<>>
    ELSE IF k \notin DOMAIN S.plans \/ S.plans[k].status # "PENDING"
    THEN plans_from(S, k + 1)
    ELSE LET plan == S.plans[k]
         IN <<[plan_id |-> k,
               trigger_price |-> plan.trigger_price,
               direction |-> EnumValue(plan.direction),
               amount |-> plan.amount,
               leverage |-> plan.leverage,
               stop_loss |-> plan.stop_loss,
               take_profit |-> plan.take_profit]>>
            \o plans_from(S, k + 1)

\* SimulatedExecutor.get_plans
get_plans(S) == plans_from(S, 1)

---------------------------------------------------------------------------
(* The price-update entry point *)

\* the loop of check_and_trigger_plans with open_position given the plan's
\* trigger price in place of current_price
RECURSIVE plan_loop_at_trigger(_, _, _, _)
plan_loop_at_trigger(S, k, current_price, triggered_plans) ==
    IF k > S.ids.plan
    THEN [S |-> S, triggered |-> triggered_plans, raised |-> FALSE, aborted |-> 0]
    ELSE IF k \notin DOMAIN S.plans
            \/ ~check_trigger(S.plans[k], current_price, S.last_price)
    THEN plan_loop_at_trigger(S, k + 1, current_price, triggered_plans)
    ELSE LET plan == S.plans[k]
             r == open_position(S, EnumValue(plan.direction), plan.amount,
                                plan.leverage, plan.stop_loss, plan.take_profit,
                                plan.trigger_price)
         IN IF r.raised
            THEN [S |-> r.S, triggered |-> triggered_plans, raised |-> TRUE,
                  aborted |-> k]
            ELSE plan_loop_at_trigger([r.S EXCEPT !.plans[k].status = "TRIGGERED"],
                           k + 1, current_price,
                           Append(triggered_plans,
                                  [plan_id |-> k, result |-> r.result]))

\* the loop of check_and_trigger_plans over list(self.plans.values()), from
\* plan k on (a dict keeps insertion order: ascending ids).  An exception
\* raised by open_position leaves the loop at once: the plan keeps its
\* status and the caller sees no return value.
RECURSIVE plan_loop(_, _, _, _)
plan_loop(S, k, current_price, triggered_plans) ==
    IF k > S.ids.plan
    THEN [S |-> S, triggered |-> triggered_plans, raised |-> FALSE, aborted |-> 0]
    ELSE IF k \notin DOMAIN S.plans
            \/ ~check_trigger(S.plans[k], current_price, S.last_price)
    THEN plan_loop(S, k + 1, current_price, triggered_plans)
    ELSE LET plan == S.plans[k]
             r == open_position(S, EnumValue(plan.direction), plan.amount,
                                plan.leverage, plan.stop_loss, plan.take_profit,
                                current_price)
         IN IF r.raised
            THEN [S |-> r.S, triggered |-> triggered_plans, raised |-> TRUE,
                  aborted |-> k]
            ELSE plan_loop([r.S EXCEPT !.plans[k].status = "TRIGGERED"],
                           k + 1, current_price,
                           Append(triggered_plans,
                                  [plan_id |-> k, result |-> r.result]))

\* SimulatedExecutor.check_and_trigger_plans
check_and_trigger_plans(S, current_price) ==
    IF S.last_price = None
    THEN [S |-> [S EXCEPT !.last_price = current_price], triggered |-> <<>>,
          raised |-> FALSE, aborted |-> 0]
    ELSE plan_loop(S, 1, current_price, <<>>)

\* the loop of check_stop_loss_take_profit without the test of line 401 that
\* the position is open
RECURSIVE position_loop_any_status(_, _, _, _)
position_loop_any_status(S, k, current_price, auto_closed) ==
    IF k > S.ids.pos
    THEN [S |-> S, closed |-> auto_closed]
    ELSE IF k \notin DOMAIN S.positions
            \/ Position_check_stop_loss_take_profit(S.positions[k], current_price) = "none"
    THEN position_loop_any_status(S, k + 1, current_price, auto_closed)
    ELSE LET r == close_position(S, k, RatioDen, current_price)
         IN position_loop_any_status(r.S, k + 1, current_price,
                Append(auto_closed,
                       [position_id |-> k,
                        trigger |-> Position_check_stop_loss_take_profit(
                                        S.positions[k], current_price),
                        result |-> r.result]))

\* the loop of check_stop_loss_take_profit over list(self.positions.values()),
\* from position k on
RECURSIVE position_loop(_, _, _, _)
position_loop(S, k, current_price, auto_closed) ==
    IF k > S.ids.pos
    THEN [S |-> S, closed |-> auto_closed]
    ELSE IF k \notin DOMAIN S.positions \/ S.positions[k].status # "OPEN"
            \/ Position_check_stop_loss_take_profit(S.positions[k], current_price) = "none"
    THEN position_loop(S, k + 1, current_price, auto_closed)
    ELSE LET r == close_position(S, k, RatioDen, current_price)
         IN position_loop(r.S, k + 1, current_price,
                Append(auto_closed,
                       [position_id |-> k,
                        trigger |-> Position_check_stop_loss_take_profit(
                                        S.positions[k], current_price),
                        result |-> r.result]))

\* SimulatedExecutor.check_stop_loss_take_profit
check_stop_loss_take_profit(S, current_price) ==
    position_loop(S, 1, current_price, <<>>)

\* SimulatedExecutor.update_price
update_price(S, current_price) ==
    LET t == check_and_trigger_plans(S, current_price)
        c == check_stop_loss_take_profit(t.S, current_price)
    IN IF t.raised
       THEN [S |-> t.S, raised |-> TRUE, aborted |-> t.aborted,
             triggered_plans |-> t.triggered, auto_closed_positions |-> <<>>]
       ELSE [S |-> [c.S EXCEPT !.last_price = current_price],
             raised |-> FALSE, aborted |-> 0,
             triggered_plans |-> t.triggered, auto_closed_positions |-> c.closed]

---------------------------------------------------------------------------
(* The state machine: one action per entry point, each the whole call *)

Idle == [pc |-> "idle"]

Init ==
    /\ total_balance = InitialBalance
    /\ positions = <<>>
    /\ plans = <<>>
    /\ trade_history = <<>>
    /\ last_price = None
    /\ saved = NoFile
    /\ ids = [pos |-> 0, plan |-> 0]
    /\ feed = Idle
    /\ cmd = Idle
    /\ ncmd = 0
    /\ fired = [k \in PlanIds |-> <<>>]

\* the executor's fields become those of S
Install(S) ==
    /\ total_balance' = S.total_balance
    /\ positions' = S.positions
    /\ plans' = S.plans
    /\ trade_history' = S.trade_history
    /\ last_price' = S.last_price
    /\ saved' = S.saved
    /\ ids' = S.ids

\* uuid4 hands out ids 1..MaxPositions and 1..MaxPlans only
WithinIds(S) == S.ids.pos <= MaxPositions /\ S.ids.plan <= MaxPlans

\* the stored amounts stay integers: a partial close is taken only where
\* close_amount, its fee and the remaining margin are whole
ExactClose(S, position_id, ratio) ==
    position_id \in DOMAIN S.positions =>
        LET position == S.positions[position_id]
        IN /\ (position.amount * ratio) % (RatioDen * FeeRateDen) = 0
           /\ ((position.amount * (RatioDen - ratio)) \div RatioDen)
                 % position.leverage = 0

\* a command that succeeds is counted, up to MaxCommands
Counted(r) ==
    /\ r.result.success => ncmd < MaxCommands
    /\ ncmd' = IF r.result.success THEN ncmd + 1 ELSE ncmd

\* TradingAgent.make_decision puts the market's current price into the
\* arguments of open_position and close_position: the price the feed last
\* delivered, or any price before the feed has delivered one
MarketPrices == IF last_price = None THEN Prices ELSE {last_price}

\* MCPServer.handle_tool_call: an exception becomes a failure result
handle_tool_call(r) == r.result

\* handle_tool_call("open_position", ...)
OpenPosition ==
    \E o \in Orders, current_price \in MarketPrices :
        LET r == open_position(Ledger, o.direction, o.amount, o.leverage,
                               o.stop_loss, o.take_profit, current_price)
        IN /\ feed.pc = "idle" /\ cmd.pc = "idle"
           /\ WithinIds(r.S)
           /\ Install(r.S)
           /\ Counted(r)
           /\ UNCHANGED <<feed, cmd, fired>>

\* handle_tool_call("close_position", ...)
ClosePosition ==
    \E position_id \in PosIds, ratio \in Ratios, current_price \in MarketPrices :
        LET r == close_position(Ledger, position_id, ratio, current_price)
        IN /\ feed.pc = "idle" /\ cmd.pc = "idle"
           /\ ExactClose(Ledger, position_id, ratio)
           /\ Install(r.S)
           /\ Counted(r)
           /\ UNCHANGED <<feed, cmd, fired>>

\* handle_tool_call("modify_position", ...)
ModifyPosition ==
    \E position_id \in PosIds, stop_loss \in {None, Edits.price},
       take_profit \in {None, Edits.price} :
        LET r == modify_position(Ledger, position_id, stop_loss, take_profit)
        IN /\ feed.pc = "idle" /\ cmd.pc = "idle"
           /\ Install(r.S)
           /\ Counted(r)
           /\ UNCHANGED <<feed, cmd, fired>>

\* handle_tool_call("create_plan", ...)
CreatePlan ==
    \E o \in Orders, trigger_price \in Prices :
        LET r == create_plan(Ledger, trigger_price, o.direction, o.amount,
                             o.leverage, o.stop_loss, o.take_profit)
        IN /\ feed.pc = "idle" /\ cmd.pc = "idle"
           /\ WithinIds(r.S)
           /\ Install(r.S)
           /\ Counted(r)
           /\ UNCHANGED <<feed, cmd, fired>>

\* no keyword argument supplied
NoEdit == [f \in PlanFields |-> None]

\* the keyword arguments drawn for modify_plan: one field at a time, or none
PlanEdits ==
    {NoEdit,
     [NoEdit EXCEPT !.trigger_price = Edits.price],
     [NoEdit EXCEPT !.amount = Edits.amount],
     [NoEdit EXCEPT !.leverage = Edits.leverage],
     [NoEdit EXCEPT !.stop_loss = Edits.price],
     [NoEdit EXCEPT !.take_profit = Edits.price]}

\* handle_tool_call("modify_plan", ...)
ModifyPlan ==
    \E plan_id \in PlanIds, kwargs \in PlanEdits :
        LET r == modify_plan(Ledger, plan_id, kwargs)
        IN /\ feed.pc = "idle" /\ cmd.pc = "idle"
           /\ Install(r.S)
           /\ Counted(r)
           /\ UNCHANGED <<feed, cmd, fired>>

\* handle_tool_call("cancel_plan", ...)
CancelPlan ==
    \E plan_id \in PlanIds :
        LET r == cancel_plan(Ledger, plan_id)
        IN /\ feed.pc = "idle" /\ cmd.pc = "idle"
           /\ Install(r.S)
           /\ Counted(r)
           /\ UNCHANGED <<feed, cmd, fired>>

\* what one update_price call adds to the record of each plan's
\* open_position calls: the position opened, or 0 when the open failed or
\* raised
FiredAfter(r) ==
    [k \in PlanIds |->
        IF r.aborted = k THEN Append(fired[k], 0)
        ELSE IF \E i \in DOMAIN r.triggered_plans : r.triggered_plans[i].plan_id = k
        THEN LET i == CHOOSE j \in DOMAIN r.triggered_plans :
                          r.triggered_plans[j].plan_id = k
                 res == r.triggered_plans[i].result
             IN Append(fired[k], IF res.success THEN res.position_id ELSE 0)
        ELSE fired[k]]

\* AITrader.on_price_update: update_price, any exception logged and dropped
UpdatePrice ==
    \E price \in Prices :
        LET r == update_price(Ledger, price)
        IN /\ feed.pc = "idle" /\ cmd.pc = "idle"
           /\ WithinIds(r.S)
           /\ \A k \in PlanIds : Len(FiredAfter(r)[k]) <= MaxAttempts
           /\ Install(r.S)
           /\ fired' = FiredAfter(r)
           /\ UNCHANGED <<feed, cmd, ncmd>>

Next ==
    \/ OpenPosition
    \/ ClosePosition
    \/ ModifyPosition
    \/ CreatePlan
    \/ ModifyPlan
    \/ CancelPlan
    \/ UpdatePrice

Spec == Init /\ [][Next]_vars

---------------------------------------------------------------------------
(* The two threads.  PriceStreamManager.start runs on_price_update on a    *)
(* worker thread (asyncio.to_thread) while main_loop runs handle_tool_call *)
(* on the event-loop thread, and the executor takes no lock: a thread can  *)
(* be descheduled between the reads of a method and its writes.  feed and  *)
(* cmd hold each thread's position and its local variables.                *)

\* the rest of the loop of check_stop_loss_take_profit from position k on,
\* over the list taken when the loop started (ids 1..upto), up to the point
\* where close_position has made its checks and computed its locals
Scan(S, k, upto, price) ==
    LET due == {j \in k..upto :
                   /\ j \in DOMAIN S.positions
                   /\ S.positions[j].status = "OPEN"
                   /\ Position_check_stop_loss_take_profit(S.positions[j], price) # "none"}
    IN IF due = {} THEN [pc |-> "end", price |-> price]
       ELSE LET j == CHOOSE m \in due : \A n \in due : m <= n
            IN [pc |-> "closing", price |-> price, k |-> j, upto |-> upto,
                loc |-> close_locals(S, j, RatioDen, price)]

\* update_price on the worker thread, lines 414-415: the plan pass, then the
\* position pass up to its first close
FeedBegin ==
    \E price \in Prices :
        LET t == check_and_trigger_plans(Ledger, price)
            r == [triggered_plans |-> t.triggered, aborted |-> t.aborted]
        IN /\ feed.pc = "idle"
           /\ WithinIds(t.S)
           /\ cmd.pc = "open_position" => t.S.ids.pos < MaxPositions
           /\ \A k \in PlanIds : Len(FiredAfter(r)[k]) <= MaxAttempts
           /\ Install(t.S)
           /\ fired' = FiredAfter(r)
           /\ feed' = IF t.raised THEN Idle
                      ELSE Scan(t.S, 1, t.S.ids.pos, price)
           /\ UNCHANGED <<cmd, ncmd>>

\* the writes of the close_position that the position pass called, then the
\* pass up to its next close
FeedClose ==
    /\ feed.pc = "closing"
    /\ LET S == close_apply(Ledger, feed.k, RatioDen, feed.price, feed.loc)
       IN /\ Install(S)
          /\ feed' = Scan(S, feed.k + 1, feed.upto, feed.price)
    /\ UNCHANGED <<cmd, ncmd, fired>>

\* update_price, line 416: self.last_price = current_price
FeedEnd ==
    /\ feed.pc = "end"
    /\ last_price' = feed.price
    /\ feed' = Idle
    /\ UNCHANGED <<total_balance, positions, plans, trade_history, saved, ids,
                   cmd, ncmd, fired>>

\* a command whose checks passed goes on to its writes, up to MaxCommands
\* of them.  One whose checks failed returns with nothing written: it leaves
\* every variable as it was, which is a stuttering step of the specification.
Begun(chk, c) ==
    /\ chk = "ok"
    /\ ncmd < MaxCommands
    /\ ncmd' = ncmd + 1
    /\ cmd' = c
    /\ UNCHANGED <<total_balance, positions, plans, trade_history, last_price,
                   saved, ids, feed, fired>>

\* the command thread returns from its call
Ended(S) ==
    /\ Install(S)
    /\ cmd' = Idle
    /\ UNCHANGED <<feed, ncmd, fired>>

\* open_position on the event-loop thread: lines 163-170, then lines 172-199
OpenBegin ==
    \E o \in Orders, current_price \in MarketPrices :
        /\ cmd.pc = "idle"
        /\ ids.pos < MaxPositions
        /\ Begun(open_check(Ledger, o.direction, o.amount, o.leverage,
                            o.stop_loss, current_price),
                 [pc |-> "open_position", o |-> o, price |-> current_price])

OpenEnd ==
    /\ cmd.pc = "open_position"
    /\ Ended(open_apply(Ledger, cmd.o.direction, cmd.o.amount, cmd.o.leverage,
                        cmd.o.stop_loss, cmd.o.take_profit, cmd.price))

\* close_position on the event-loop thread: lines 209-227, then lines 228-248
CloseBegin ==
    \E position_id \in PosIds, ratio \in Ratios, current_price \in MarketPrices :
        /\ cmd.pc = "idle"
        /\ ExactClose(Ledger, position_id, ratio)
        /\ Begun(close_check(Ledger, position_id, ratio),
                 [pc |-> "close_position", position_id |-> position_id,
                  ratio |-> ratio, price |-> current_price,
                  loc |-> close_locals(Ledger, position_id, ratio, current_price)])

CloseEnd ==
    /\ cmd.pc = "close_position"
    /\ Ended(close_apply(Ledger, cmd.position_id, cmd.ratio, cmd.price, cmd.loc))

\* modify_position on the event-loop thread: lines 259-260, then 262-269
ModifyPositionBegin ==
    \E position_id \in PosIds, stop_loss \in {None, Edits.price},
       take_profit \in {None, Edits.price} :
        /\ cmd.pc = "idle"
        /\ Begun(modify_position_check(Ledger, position_id),
                 [pc |-> "modify_position", position_id |-> position_id,
                  stop_loss |-> stop_loss, take_profit |-> take_profit])

ModifyPositionEnd ==
    /\ cmd.pc = "modify_position"
    /\ Ended(modify_position_apply(Ledger, cmd.position_id, cmd.stop_loss,
                                   cmd.take_profit))

\* create_plan on the event-loop thread: lines 275-282, then 284-298
CreatePlanBegin ==
    \E o \in Orders, trigger_price \in Prices :
        /\ cmd.pc = "idle"
        /\ ids.plan < MaxPlans
        /\ Begun(open_check(Ledger, o.direction, o.amount, o.leverage,
                            o.stop_loss, trigger_price),
                 [pc |-> "create_plan", o |-> o, price |-> trigger_price])

CreatePlanEnd ==
    /\ cmd.pc = "create_plan"
    /\ Ended(create_plan_apply(Ledger, cmd.price, cmd.o.direction, cmd.o.amount,
                               cmd.o.leverage, cmd.o.stop_loss, cmd.o.take_profit))

\* modify_plan on the event-loop thread: lines 303-308, then 310-314
ModifyPlanBegin ==
    \E plan_id \in PlanIds, kwargs \in PlanEdits :
        /\ cmd.pc = "idle"
        /\ Begun(modify_plan_check(Ledger, plan_id),
                 [pc |-> "modify_plan", plan_id |-> plan_id, kwargs |-> kwargs])

ModifyPlanEnd ==
    /\ cmd.pc = "modify_plan"
    /\ Ended(modify_plan_apply(Ledger, cmd.plan_id, cmd.kwargs))

\* cancel_plan on the event-loop thread: lines 319-320, then 322-325
CancelPlanBegin ==
    \E plan_id \in PlanIds :
        /\ cmd.pc = "idle"
        /\ Begun(cancel_plan_check(Ledger, plan_id),
                 [pc |-> "cancel_plan", plan_id |-> plan_id])

CancelPlanEnd ==
    /\ cmd.pc = "cancel_plan"
    /\ Ended(cancel_plan_apply(Ledger, cmd.plan_id))

NextConc ==
    \/ FeedBegin
    \/ FeedClose
    \/ FeedEnd
    \/ OpenBegin
    \/ OpenEnd
    \/ CloseBegin
    \/ CloseEnd
    \/ ModifyPositionBegin
    \/ ModifyPositionEnd
    \/ CreatePlanBegin
    \/ CreatePlanEnd
    \/ ModifyPlanBegin
    \/ ModifyPlanEnd
    \/ CancelPlanBegin
    \/ CancelPlanEnd

SpecConc == Init /\ [][NextConc]_vars

---------------------------------------------------------------------------
(* Restart: the process stops and AITrader.__init__ runs again *)

\* SimulatedExecutor.__init__
FreshLedger(S) ==
    [S EXCEPT !.total_balance = InitialBalance,
              !.positions = <<>>,
              !.plans = <<>>,
              !.trade_history = <<>>,
              !.last_price = None]

\* the position records of a state file whose direction and status values
\* the enums have: _deserialize_positions raises ValueError on any other
positions_readable(data) ==
    \A k \in DOMAIN data :
        /\ Direction(data[k].direction) # "ValueError"
        /\ PositionStatus(data[k].status) # "ValueError"

\* the same for the plan records and _deserialize_plans
plans_readable(data) ==
    \A k \in DOMAIN data :
        /\ Direction(data[k].direction) # "ValueError"
        /\ PlanStatus(data[k].status) # "ValueError"

\* StatePersistence.restore_executor: the executor after it, for the state
\* load_state returned (AITrader.__init__ skips the call when there is none).
\* Lines 58-69 assign the fields one after the other inside the try block:
\* an exception leaves those already assigned in place.
restore_executor(S, state) ==
    IF ~state.exists THEN S
    ELSE LET scalars == [S EXCEPT !.total_balance = state.total_balance,
                                  !.last_price = state.last_price]
         IN IF ~positions_readable(state.positions) THEN scalars
            ELSE IF ~plans_readable(state.plans)
            THEN [scalars EXCEPT
                    !.positions = deserialize_positions(state.positions)]
            ELSE [scalars EXCEPT
                    !.positions = deserialize_positions(state.positions),
                    !.plans = deserialize_plans(state.plans),
                    !.trade_history = state.trade_history]

\* AITrader.__init__ after the process has stopped between two calls: a new
\* executor, restored from the state file if there is one and it can be
\* read.  The file and the ids already handed out stay as they are.
Restart ==
    \E readable \in BOOLEAN :
        /\ feed.pc = "idle" /\ cmd.pc = "idle"
        /\ Install(restore_executor(FreshLedger(Ledger),
                                    load_state(saved, readable)))
        /\ UNCHANGED <<feed, cmd, ncmd, fired>>

\* the cycle count AITrader.__init__ resumes from: what restore_executor
\* returns, or 0 when load_state returned no state
restored_cycle_count(state) ==
    IF ~state.exists THEN 0
    ELSE IF ~positions_readable(state.positions) \/ ~plans_readable(state.plans)
    THEN 0
    ELSE state.cycle_count

NextRestart == Next \/ Restart

SpecRestart == Init /\ [][NextRestart]_vars

---------------------------------------------------------------------------
(* The entry points while the state file cannot be written: every call of  *)
(* the change hook fails.  In SpecDisk the file can be written during some *)
(* open_position commands and during no other call.                        *)

OpenPositionUnsaved ==
    \E o \in Orders, current_price \in MarketPrices :
        LET r == open_position(Unwritable(Ledger), o.direction, o.amount,
                               o.leverage, o.stop_loss, o.take_profit,
                               current_price)
        IN /\ feed.pc = "idle" /\ cmd.pc = "idle"
           /\ WithinIds(r.S)
           /\ Install(r.S)
           /\ Counted(r)
           /\ UNCHANGED <<feed, cmd, fired>>

ClosePositionUnsaved ==
    \E position_id \in PosIds, ratio \in Ratios, current_price \in MarketPrices :
        LET r == close_position(Unwritable(Ledger), position_id, ratio,
                                current_price)
        IN /\ feed.pc = "idle" /\ cmd.pc = "idle"
           /\ ExactClose(Ledger, position_id, ratio)
           /\ Install(r.S)
           /\ Counted(r)
           /\ UNCHANGED <<feed, cmd, fired>>

ModifyPositionUnsaved ==
    \E position_id \in PosIds, stop_loss \in {None, Edits.price},
       take_profit \in {None, Edits.price} :
        LET r == modify_position(Unwritable(Ledger), position_id, stop_loss,
                                 take_profit)
        IN /\ feed.pc = "idle" /\ cmd.pc = "idle"
           /\ Install(r.S)
           /\ Counted(r)
           /\ UNCHANGED <<feed, cmd, fired>>

CreatePlanUnsaved ==
    \E o \in Orders, trigger_price \in Prices :
        LET r == create_plan(Unwritable(Ledger), trigger_price, o.direction,
                             o.amount, o.leverage, o.stop_loss, o.take_profit)
        IN /\ feed.pc = "idle" /\ cmd.pc = "idle"
           /\ WithinIds(r.S)
           /\ Install(r.S)
           /\ Counted(r)
           /\ UNCHANGED <<feed, cmd, fired>>

ModifyPlanUnsaved ==
    \E plan_id \in PlanIds, kwargs \in PlanEdits :
        LET r == modify_plan(Unwritable(Ledger), plan_id, kwargs)
        IN /\ feed.pc = "idle" /\ cmd.pc = "idle"
           /\ Install(r.S)
           /\ Counted(r)
           /\ UNCHANGED <<feed, cmd, fired>>

CancelPlanUnsaved ==
    \E plan_id \in PlanIds :
        LET r == cancel_plan(Unwritable(Ledger), plan_id)
        IN /\ feed.pc = "idle" /\ cmd.pc = "idle"
           /\ Install(r.S)
           /\ Counted(r)
           /\ UNCHANGED <<feed, cmd, fired>>

UpdatePriceUnsaved ==
    \E price \in Prices :
        LET r == update_price(Unwritable(Ledger), price)
        IN /\ feed.pc = "idle" /\ cmd.pc = "idle"
           /\ WithinIds(r.S)
           /\ \A k \in PlanIds : Len(FiredAfter(r)[k]) <= MaxAttempts
           /\ Install(r.S)
           /\ fired' = FiredAfter(r)
           /\ UNCHANGED <<feed, cmd, ncmd>>

NextDisk ==
    \/ OpenPosition
    \/ OpenPositionUnsaved
    \/ ClosePositionUnsaved
    \/ ModifyPositionUnsaved
    \/ CreatePlanUnsaved
    \/ ModifyPlanUnsaved
    \/ CancelPlanUnsaved
    \/ UpdatePriceUnsaved

SpecDisk == Init /\ [][NextDisk]_vars

---------------------------------------------------------------------------
(* A long-running engine.  The trade history reaches the 100 records that  *)
(* save_state keeps only after many commands.  In SpecHistory the engine   *)
(* first opens and closes one position after the other, always with the    *)
(* same order at the same price, until the history is two records short of *)
(* HistoryKept; from there on it takes any command and any price update.   *)

\* the order of the run and its price
RunOrder == Order("long", 20000, 20, 50, 200)
RunPrice == CHOOSE p \in Prices : p # 50 /\ p # 200

\* the run is still going on
Running == Len(trade_history) < HistoryKept - 2

\* the positions that are open
OpenIds == {k \in DOMAIN positions : positions[k].status = "OPEN"}

\* handle_tool_call("open_position", ...) during the run
RunOpen ==
    LET r == open_position(Ledger, RunOrder.direction, RunOrder.amount,
                           RunOrder.leverage, RunOrder.stop_loss,
                           RunOrder.take_profit, RunPrice)
    IN /\ feed.pc = "idle" /\ cmd.pc = "idle"
       /\ Running /\ OpenIds = {}
       /\ Install(r.S)
       /\ UNCHANGED <<feed, cmd, ncmd, fired>>

\* handle_tool_call("close_position", ...) during the run
RunClose ==
    \E position_id \in OpenIds :
        LET r == close_position(Ledger, position_id, RatioDen, RunPrice)
        IN /\ feed.pc = "idle" /\ cmd.pc = "idle"
           /\ Running
           /\ Install(r.S)
           /\ UNCHANGED <<feed, cmd, ncmd, fired>>

\* handle_tool_call("open_position", ...) after the run
OpenPositionLate ==
    \E o \in Orders, current_price \in MarketPrices :
        LET r == open_position(Ledger, o.direction, o.amount, o.leverage,
                               o.stop_loss, o.take_profit, current_price)
        IN /\ feed.pc = "idle" /\ cmd.pc = "idle"
           /\ ~Running
           /\ Install(r.S)
           /\ Counted(r)
           /\ UNCHANGED <<feed, cmd, fired>>

\* handle_tool_call("close_position", ...) after the run
ClosePositionLate ==
    \E position_id \in OpenIds, ratio \in Ratios,
       current_price \in MarketPrices :
        LET r == close_position(Ledger, position_id, ratio, current_price)
        IN /\ feed.pc = "idle" /\ cmd.pc = "idle"
           /\ ~Running
           /\ ExactClose(Ledger, position_id, ratio)
           /\ Install(r.S)
           /\ Counted(r)
           /\ UNCHANGED <<feed, cmd, fired>>

\* AITrader.on_price_update after the run
UpdatePriceLate ==
    \E price \in Prices :
        LET r == update_price(Ledger, price)
        IN /\ feed.pc = "idle" /\ cmd.pc = "idle"
           /\ ~Running
           /\ Install(r.S)
           /\ UNCHANGED <<feed, cmd, ncmd, fired>>

NextHistory ==
    \/ RunOpen
    \/ RunClose
    \/ OpenPositionLate
    \/ ClosePositionLate
    \/ UpdatePriceLate

SpecHistory == Init /\ [][NextHistory]_vars

---------------------------------------------------------------------------
(* The price feed: PriceStreamManager.start is one coroutine that connects, *)
(* reads the socket's messages one by one and awaits the callback for each. *)
(* feed holds the connection, the messages the socket has buffered, the     *)
(* callback calls in flight on worker threads, and the messages whose       *)
(* update_price call has returned.                                          *)

MaxMessages == 3
MaxConnects == 2

\* the 'last' field of a ticker message: a market price, or 0
TickerPrices == Prices \cup {0}

Stream(connects, connected, inbox, running, applied, messages) ==
    [pc |-> "idle", connects |-> connects, connected |-> connected,
     inbox |-> inbox, running |-> running, applied |-> applied,
     messages |-> messages]

InitStream ==
    /\ total_balance = InitialBalance
    /\ positions = <<>>
    /\ plans = <<>>
    /\ trade_history = <<>>
    /\ last_price = None
    /\ saved = NoFile
    /\ ids = [pos |-> 0, plan |-> 0]
    /\ feed = Stream(0, FALSE, <<>>, <<>>, <<>>, 0)
    /\ cmd = Idle
    /\ ncmd = 0
    /\ fired = [k \in PlanIds |-> <<>>]

\* line 62 without the await: the coroutine goes on while the callback runs
NotAwaited(f) == TRUE

\* line 62, await asyncio.to_thread(self.callback, price): the coroutine
\* takes no further step until the callback has returned
Awaited(f) == f.running = <<>>

\* the sequence s without its i-th element
Without(s, i) == SubSeq(s, 1, i - 1) \o SubSeq(s, i + 1, Len(s))

\* line 32, websockets.connect, at the start and again after lines 69-74:
\* a new connection, whose buffer is empty
StreamConnect ==
    /\ ~feed.connected
    /\ Awaited(feed)
    /\ feed.connects < MaxConnects
    /\ feed' = [feed EXCEPT !.connects = @ + 1, !.connected = TRUE,
                            !.inbox = <<>>]
    /\ UNCHANGED <<total_balance, positions, plans, trade_history, last_price,
                   saved, ids, cmd, ncmd, fired>>

\* the server sends a ticker update: the socket buffers it, whatever the
\* coroutine is doing
StreamMessage ==
    \E price \in TickerPrices :
        /\ feed.connected
        /\ feed.messages < MaxMessages
        /\ feed' = [feed EXCEPT
                      !.messages = @ + 1,
                      !.inbox = Append(@, [n |-> feed.messages + 1,
                                           price |-> price,
                                           connection |-> feed.connects])]
        /\ UNCHANGED <<total_balance, positions, plans, trade_history,
                       last_price, saved, ids, cmd, ncmd, fired>>

\* the connection is lost; the coroutine learns of it at its next read
\* (ConnectionClosed, lines 69-71)
StreamClosed ==
    /\ feed.connected
    /\ feed' = [feed EXCEPT !.connected = FALSE]
    /\ UNCHANGED <<total_balance, positions, plans, trade_history, last_price,
                   saved, ids, cmd, ncmd, fired>>

\* lines 46-62: the next message of the socket; a price above 0 is handed
\* to the callback on a worker thread
StreamDeliver ==
    /\ Awaited(feed)
    /\ feed.inbox # <<>>
    /\ LET message == Head(feed.inbox)
       IN feed' = [feed EXCEPT
                     !.inbox = Tail(@),
                     !.running = IF message.price > 0 THEN Append(@, message)
                                 ELSE @]
    /\ UNCHANGED <<total_balance, positions, plans, trade_history, last_price,
                   saved, ids, cmd, ncmd, fired>>

\* AITrader.on_price_update on the worker thread: update_price, any
\* exception logged and dropped, then the return to the coroutine
CallbackReturn ==
    \E i \in DOMAIN feed.running :
        LET message == feed.running[i]
            r == update_price(Ledger, message.price)
        IN /\ WithinIds(r.S)
           /\ \A k \in PlanIds : Len(FiredAfter(r)[k]) <= MaxAttempts
           /\ Install(r.S)
           /\ fired' = FiredAfter(r)
           /\ feed' = [feed EXCEPT !.running = Without(@, i),
                                   !.applied = Append(@, message)]
           /\ UNCHANGED <<cmd, ncmd>>

NextStream ==
    \/ StreamConnect
    \/ StreamMessage
    \/ StreamClosed
    \/ StreamDeliver
    \/ CallbackReturn
    \/ OpenPosition

SpecStream == InitStream /\ [][NextStream]_vars

---------------------------------------------------------------------------
(* Claims *)

\* the number of trade records of the given kind that position k has
Records(k, kind) ==
    Cardinality({i \in DOMAIN trade_history :
                    /\ trade_history[i].type = kind
                    /\ trade_history[i].position_id = k})

\* C1: a price update and a command never interleave: while update_price is
\* between its first and its last statement no command is between its own.
C1_EntryPointsExclusive == ~(feed.pc # "idle" /\ cmd.pc # "idle")

\* the full-close records of position k
FullCloses(k) ==
    {i \in DOMAIN trade_history :
        /\ trade_history[i].type = "close_position"
        /\ trade_history[i].position_id = k
        /\ trade_history[i].ratio >= FullCloseRatio}

\* C2: a position that a close_position(id, 1.0, p) command and a
\* stop-loss/take-profit pass both try to close is closed exactly once: the
\* ledger holds one full-close record for it, so total_balance is credited
\* with its realized PnL once.
C2_ClosedExactlyOnce == \A k \in PosIds : Cardinality(FullCloses(k)) <= 1

\* the positions that plan k's open_position calls have opened
Spawned(k) == {fired[k][i] : i \in DOMAIN fired[k]} \ {0}

\* C3: restart does not duplicate state: restoring the ledger from the last
\* persisted snapshot and delivering further price updates never opens a
\* second position for a plan that had already spawned one, and no plan is
\* pending in the ledger alongside a position it spawned.
C3_RestartNoDuplicate ==
    \A k \in PlanIds :
        /\ Cardinality(Spawned(k)) <= 1
        /\ (k \in DOMAIN plans /\ plans[k].status = "PENDING")
              => Spawned(k) \cap DOMAIN positions = {}

\* C4: available margin is never negative: in every state reached from the
\* fresh ledger by commands and price updates,
\* get_account_info().available >= 0.
C4_AvailableNeverNegative ==
    get_account_info(Ledger).available >= 0

\* C5: each plan fires at most once: over any sequence of price updates
\* and commands a plan causes at most one open_position call.
C5_PlanFiresAtMostOnce ==
    \A k \in PlanIds : Len(fired[k]) <= 1

\* C6: the plan statuses triggered and cancelled are terminal: no command
\* and no price update changes the status of a plan that is triggered or
\* cancelled.
C6_PlanStatusTerminal ==
    [][\A k \in DOMAIN plans :
          plans[k].status \in {"TRIGGERED", "CANCELLED"}
              => k \in DOMAIN plans' /\ plans'[k].status = plans[k].status]_vars

\* C7: a position goes from open to closed at most once and never back: a
\* closed position stays closed, every close_position command on it fails
\* and leaves the ledger as it is, and the stop-loss / take-profit pass of
\* every price update skips it.
C7_ClosedStaysClosed ==
    /\ [](\A k \in DOMAIN positions :
            positions[k].status = "CLOSED" =>
                /\ Records(k, "close_position") >= 1
                /\ \A ratio \in Ratios, p \in Prices :
                      LET r == close_position(Ledger, k, ratio, p)
                      IN ~r.result.success /\ r.S = Ledger
                /\ \A p \in Prices :
                      LET c == check_stop_loss_take_profit(Ledger, p)
                      IN /\ c.S.positions[k] = positions[k]
                         /\ \A i \in DOMAIN c.closed : c.closed[i].position_id # k)
    /\ [][\A k \in DOMAIN positions :
            positions[k].status = "CLOSED" =>
                /\ k \in DOMAIN positions'
                /\ positions'[k].status = "CLOSED"
                /\ Records(k, "close_position")' = Records(k, "close_position")]_vars

\* C7 witness: a closed position with its one full-close record, which the
\* last price update found at or beyond its stop-loss and left closed
C7_Witness ==
    \E k \in DOMAIN positions :
        /\ positions[k].status = "CLOSED"
        /\ last_price # None
        /\ positions[k].close_price # last_price
        /\ Position_check_stop_loss_take_profit(positions[k], last_price) = "stop_loss"
        /\ Records(k, "close_position") = 1

\* C8: a closed position is immutable: once a position is closed, no
\* command changes any of its fields.
C8_ClosedImmutable ==
    [][\A k \in DOMAIN positions :
          positions[k].status = "CLOSED"
              => k \in DOMAIN positions' /\ positions'[k] = positions[k]]_vars

\* the sum of amount / leverage over the positions whose status is open
RECURSIVE OpenMarginSum(_, _)
OpenMarginSum(pos, dom) ==
    IF dom = {} THEN 0
    ELSE LET k == CHOOSE x \in dom : TRUE
         IN (IF pos[k].status = "OPEN" THEN pos[k].amount \div pos[k].leverage ELSE 0)
            + OpenMarginSum(pos, dom \ {k})

\* C9: get_account_info().margin_used is the sum of amount / leverage over
\* the open positions, and available is total_balance minus that sum.
C9_MarginOverOpenPositions ==
    LET account == get_account_info(Ledger)
        open_margin == OpenMarginSum(positions, DOMAIN positions)
    IN /\ account.margin_used = open_margin
       /\ account.available = total_balance - open_margin

\* C10: the first update_price call, on a ledger whose last_price is unset,
\* only seeds last_price: it returns no triggered plan and no auto-closed
\* position and changes no position, no plan and not total_balance.
C10_FirstUpdateOnlySeeds ==
    last_price = None =>
        \A p \in Prices :
            LET r == update_price(Ledger, p)
            IN /\ ~r.raised
               /\ r.triggered_plans = <<>>
               /\ r.auto_closed_positions = <<>>
               /\ r.S.positions = positions
               /\ r.S.plans = plans
               /\ r.S.total_balance = total_balance
               /\ r.S.last_price = p

\* whether the update_price call with outcome r called open_position for
\* plan k
FiresIn(r, k) ==
    \/ r.aborted = k
    \/ \E i \in DOMAIN r.triggered_plans : r.triggered_plans[i].plan_id = k

\* the crossing rule: last < trigger_price <= curr for a long plan,
\* last > trigger_price >= curr for a short plan
Crossing(plan, last, curr) ==
    IF plan.direction = "LONG"
    THEN last < plan.trigger_price /\ plan.trigger_price <= curr
    ELSE last > plan.trigger_price /\ plan.trigger_price >= curr

\* C11: on every update_price after the first, with last the price of the
\* previous update and curr the new price, a pending plan fires if and only
\* if the price crossed its trigger between the two: a gap over the trigger
\* fires it, the same price twice does not.
C11_FiresIffCrossing ==
    \A last \in Prices, curr \in Prices :
        LET r1 == update_price(Ledger, last)
            r2 == update_price(r1.S, curr)
        IN \A k \in DOMAIN r1.S.plans :
              r1.S.plans[k].status = "PENDING"
                  => (FiresIn(r2, k) <=> Crossing(r1.S.plans[k], last, curr))

\* C12: a plan that fires is triggered when update_price returns, whether
\* its open_position succeeded or failed, the open's result is in
\* triggered_plans, and a plan whose open failed is not tried again by any
\* later update.
C12_FiredPlanIsTriggered ==
    /\ \A p \in Prices :
          LET r == update_price(Ledger, p)
          IN \A k \in DOMAIN plans :
                FiresIn(r, k) =>
                    /\ ~r.raised
                    /\ r.S.plans[k].status = "TRIGGERED"
                    /\ \E i \in DOMAIN r.triggered_plans :
                          r.triggered_plans[i].plan_id = k
    /\ \A k \in PlanIds :
          \A i \in DOMAIN fired[k] : fired[k][i] = 0 => i = Len(fired[k])

\* the stop-loss / take-profit condition of a position at price curr: long,
\* curr <= stop_loss or curr >= take_profit; short, curr >= stop_loss or
\* curr <= take_profit
MeetsCondition(pos, curr) ==
    IF pos.direction = "LONG"
    THEN curr <= pos.stop_loss \/ curr >= pos.take_profit
    ELSE curr >= pos.stop_loss \/ curr <= pos.take_profit

\* C13: when an update_price call after the first returns, every position
\* that was open in its stop-loss / take-profit pass and met its condition
\* at the current price is closed in full at that price, and no open
\* position meets its condition at last_price.
C13_DuePositionsClosed ==
    last_price # None =>
        \A curr \in Prices :
            LET t == check_and_trigger_plans(Ledger, curr)
                r == update_price(Ledger, curr)
            IN ~r.raised =>
                /\ \A k \in DOMAIN t.S.positions :
                      (t.S.positions[k].status = "OPEN"
                          /\ MeetsCondition(t.S.positions[k], curr))
                      => /\ r.S.positions[k].status = "CLOSED"
                         /\ r.S.positions[k].close_price = curr
                         /\ r.S.positions[k].amount = t.S.positions[k].amount
                         /\ \E i \in DOMAIN r.auto_closed_positions :
                               /\ r.auto_closed_positions[i].position_id = k
                               /\ r.auto_closed_positions[i].result.success
                               /\ r.auto_closed_positions[i].result.closed_amount
                                     = t.S.positions[k].amount
                /\ r.S.last_price = curr
                /\ \A k \in DOMAIN r.S.positions :
                      r.S.positions[k].status = "OPEN"
                          => ~MeetsCondition(r.S.positions[k], r.S.last_price)

\* C13 witness: a position that a plan opened during an update, closed at
\* the price of the last update, where it met its take-profit
C13_Witness ==
    \E k \in DOMAIN positions :
        /\ \E pl \in PlanIds : k \in Spawned(pl)
        /\ positions[k].status = "CLOSED"
        /\ last_price # None
        /\ positions[k].close_price = last_price
        /\ positions[k].entry_price # last_price
        /\ MeetsCondition(positions[k], last_price)
        /\ Position_check_stop_loss_take_profit(positions[k], last_price) = "take_profit"
        /\ \E i \in DOMAIN trade_history :
              /\ trade_history[i].type = "close_position"
              /\ trade_history[i].position_id = k
              /\ trade_history[i].close_price = last_price

\* the ids in the auto_closed_positions of an update_price outcome
AutoClosedIds(r) ==
    {r.auto_closed_positions[i].position_id : i \in DOMAIN r.auto_closed_positions}

\* the full-close records of position k in the ledger S
FullClosesIn(S, k) ==
    {i \in DOMAIN S.trade_history :
        /\ S.trade_history[i].type = "close_position"
        /\ S.trade_history[i].position_id = k
        /\ S.trade_history[i].ratio >= FullCloseRatio}

\* C14: stop-loss and take-profit are mutually exclusive and idempotent: one
\* update_price auto-closes a position at most once, under one label; a
\* position that is closed is in the auto_closed_positions of no later
\* update, whichever trigger its prices meet; over the run a position has
\* at most one full close.
C14_AutoCloseOnce ==
    /\ \A k \in DOMAIN positions : Cardinality(FullClosesIn(Ledger, k)) <= 1
    /\ \A curr \in Prices :
          LET t == check_and_trigger_plans(Ledger, curr)
              r == update_price(Ledger, curr)
          IN /\ \A i, j \in DOMAIN r.auto_closed_positions :
                    r.auto_closed_positions[i].position_id
                        = r.auto_closed_positions[j].position_id => i = j
             /\ \A i \in DOMAIN r.auto_closed_positions :
                    LET e == r.auto_closed_positions[i]
                    IN /\ e.trigger \in {"stop_loss", "take_profit"}
                       /\ e.result.success
                       /\ t.S.positions[e.position_id].status = "OPEN"
                       /\ r.S.positions[e.position_id].status = "CLOSED"
                       /\ Cardinality(FullClosesIn(r.S, e.position_id)) = 1
             /\ \A k \in DOMAIN positions :
                    positions[k].status = "CLOSED" => k \notin AutoClosedIds(r)
             /\ \A next \in Prices :
                    AutoClosedIds(update_price(r.S, next)) \cap AutoClosedIds(r) = {}

\* C14 witness: a position that a plan opened and a stop-loss or take-profit
\* pass closed, with
\* its one full-close record, which meets its condition again at the price
\* of a later update and was left closed
C14_Witness ==
    \E k \in DOMAIN positions :
        /\ \E pl \in PlanIds : k \in Spawned(pl)
        /\ positions[k].status = "CLOSED"
        /\ MeetsCondition(positions[k], positions[k].close_price)
        /\ positions[k].close_price # positions[k].entry_price
        /\ last_price # None
        /\ last_price # positions[k].close_price
        /\ MeetsCondition(positions[k], last_price)
        /\ Cardinality(FullClosesIn(Ledger, k)) = 1

\* C15: every snapshot the change hook takes shows the ledger as of a
\* completed command or a completed price update: no snapshot holds a
\* position that a plan spawned together with that plan still pending.
C15_SnapshotsComplete ==
    saved.exists =>
        \A k \in DOMAIN saved.plans :
            saved.plans[k].status = "pending"
                => Spawned(k) \cap DOMAIN saved.positions = {}

\* C16: whenever update_price changes a plan's status, a position or
\* total_balance, the hook is called after the change: when update_price
\* returns, the snapshot last handed to the hook has the plans, the
\* positions and the total_balance of the ledger in memory.
C16_UpdateCallsHook ==
    \A curr \in Prices :
        LET r == update_price(Ledger, curr)
        IN (r.S.plans # plans \/ r.S.positions # positions
               \/ r.S.total_balance # total_balance)
           => /\ r.S.saved.exists
              /\ deserialize_plans(r.S.saved.plans) = r.S.plans
              /\ deserialize_positions(r.S.saved.positions) = r.S.positions
              /\ r.S.saved.total_balance = r.S.total_balance

\* P holds of the outcome of every command the decision loop can issue in
\* the current state
EveryCommand(P(_)) ==
    /\ \A o \in Orders, p \in Prices :
          /\ P(open_position(Ledger, o.direction, o.amount, o.leverage,
                             o.stop_loss, o.take_profit, p))
          /\ P(create_plan(Ledger, p, o.direction, o.amount, o.leverage,
                           o.stop_loss, o.take_profit))
    /\ \A k \in PosIds, ratio \in Ratios, p \in Prices :
          ExactClose(Ledger, k, ratio) => P(close_position(Ledger, k, ratio, p))
    /\ \A k \in PosIds, stop_loss \in {None, Edits.price},
          take_profit \in {None, Edits.price} :
          P(modify_position(Ledger, k, stop_loss, take_profit))
    /\ \A k \in PlanIds, kwargs \in PlanEdits : P(modify_plan(Ledger, k, kwargs))
    /\ \A k \in PlanIds : P(cancel_plan(Ledger, k))

\* the change hook ran after the whole mutation of a command that succeeded:
\* the state file holds the ledger the command returned with
HookedAfter(r) ==
    r.result.success =>
        /\ r.S.saved.exists
        /\ r.S.saved = save_state(r.S).saved

\* C17: every command that returns success has called the change hook
\* after applying its whole mutation and before returning.
C17_SuccessCallsHook == EveryCommand(HookedAfter)

\* C17 witness: after a close_position and a cancel_plan that succeeded, the
\* state file holds the closed position and the cancelled plan
C17_Witness ==
    /\ ncmd >= 2
    /\ saved.exists
    /\ \E k \in DOMAIN plans :
          plans[k].status = "CANCELLED" /\ saved.plans[k].status = "cancelled"
    /\ \E k \in DOMAIN positions :
          /\ Records(k, "close_position") >= 1
          /\ saved.positions[k] = serialize_positions(positions)[k]

\* a command that failed left the ledger and the state file as they were
UntouchedOnFailure(r) == ~r.result.success => r.S = Ledger

\* C18: commands are all-or-nothing: when a command returns failure,
\* total_balance, every position, every plan, trade_history and last_price
\* are as before the call and the change hook has not been called.
C18_FailureChangesNothing == EveryCommand(UntouchedOnFailure)

\* C18 witness: a ledger with a closed position, on which close_position
\* fails, and with a state file, while an order is refused too
C18_Witness ==
    /\ saved.exists
    /\ \E k \in DOMAIN positions :
          /\ positions[k].status = "CLOSED"
          /\ ~close_position(Ledger, k, RatioDen, positions[k].close_price).result.success
    /\ \E o \in Orders, p \in Prices :
          ~open_position(Ledger, o.direction, o.amount, o.leverage,
                         o.stop_loss, o.take_profit, p).result.success

\* the orders validate_position is given: those of the commands, and one
\* whose margin is above 80000
ValidateOrders == Orders \cup {Order("long", 90000, 1, 50, 200)}

\* the five rules in their order, first failure wins, with available =
\* total_balance - margin_used and margin_used the sum of amount / leverage
\* over the open positions
FirstViolated(S, o, reference_price) ==
    LET available == S.total_balance - OpenMarginSum(S.positions, DOMAIN S.positions)
        direction == Direction(o.direction)
    IN IF ~(o.leverage > 0 /\ o.amount <= available * o.leverage)
       THEN "insufficient_margin"
       ELSE IF ~(o.amount * MaxPositionRatioDen <= S.total_balance * MaxPositionRatioNum)
       THEN "position_ratio"
       ELSE IF ~(o.leverage <= MaxLeverage)
       THEN "max_leverage"
       ELSE IF ~(Abs(reference_price - o.stop_loss) * MinStopLossPercentDen
                    >= MinStopLossPercentNum * reference_price)
       THEN "stop_loss_distance"
       ELSE IF direction = "LONG" /\ ~(o.stop_loss < reference_price)
       THEN "long_stop_above_entry"
       ELSE IF direction = "SHORT" /\ ~(o.stop_loss > reference_price)
       THEN "short_stop_below_entry"
       ELSE "ok"

\* C19: validate_position applies the five rules (a) to (e) in order: it
\* returns ok exactly when no rule is violated and otherwise the reason of
\* the first violated rule.
C19_RulesInOrder ==
    \A o \in ValidateOrders, reference_price \in Prices :
        Direction(o.direction) # "ValueError" =>
            validate_position(Ledger, o.amount, o.leverage, o.stop_loss,
                              reference_price, Direction(o.direction))
                = FirstViolated(Ledger, o, reference_price)

\* the position ids get_positions() lists in the ledger S
ListedIds(S) == {get_positions(S)[i].position_id : i \in DOMAIN get_positions(S)}

\* the directional PnL of an order entered at price entry and closed in
\* full at price p
OrderPnl(o, entry, p) ==
    IF o.direction = "long" THEN ((p - entry) * o.amount) \div entry
    ELSE ((entry - p) * o.amount) \div entry

\* C20: a successful open_position followed, with only modify_position
\* between, by close_position(id, 1.0, p) leaves total_balance at its value
\* before the open plus the directional PnL at p on the full amount minus
\* the open fee and the close fee, amount * fee_rate each; get_positions()
\* does not list the position then, nor in any later state, where it is
\* still closed.
C20_OpenCloseBalance ==
    /\ \A k \in DOMAIN positions :
          positions[k].status = "CLOSED" => k \notin ListedIds(Ledger)
    /\ \A o \in Orders, entry \in Prices, p \in Prices,
          stop_loss \in {None, Edits.price} :
          LET take_profit == stop_loss
              r1 == open_position(Ledger, o.direction, o.amount, o.leverage,
                                  o.stop_loss, o.take_profit, entry)
              id == r1.result.position_id
              m == modify_position(r1.S, id, stop_loss, take_profit)
              r2 == close_position(m.S, id, RatioDen, p)
              fee == (o.amount * FeeRateNum) \div FeeRateDen
          IN r1.result.success =>
                /\ id \in ListedIds(r1.S)
                /\ r2.result.success
                /\ r2.S.total_balance
                      = total_balance + OrderPnl(o, entry, p) - fee - fee
                /\ id \notin ListedIds(r2.S)

\* C20 witness: a ledger whose whole history is one open_position and one
\* full close_position at another price: the balance is the initial balance
\* plus the PnL minus the two fees, and get_positions() is empty
C20_Witness ==
    /\ Len(trade_history) = 2
    /\ trade_history[1].type = "open_position"
    /\ trade_history[2].type = "close_position"
    /\ trade_history[2].position_id = trade_history[1].position_id
    /\ trade_history[2].ratio = RatioDen
    /\ trade_history[2].close_price # trade_history[1].entry_price
    /\ total_balance = InitialBalance + trade_history[2].realized_pnl
                          - trade_history[1].fee
    /\ total_balance # InitialBalance
    /\ get_positions(Ledger) = <<>>

\* the ratios of C21: those the commands draw and the two on either side of
\* the threshold of line 230
C21_Ratios == Ratios \cup {FullCloseRatio - 1, FullCloseRatio}

\* C21: close_position(id, ratio, p) on an open position with a ratio in
\* (0, 1] succeeds; with ratio < 0.9999 the position stays open, its amount
\* becomes amount * (1 - ratio), total_balance is credited with the
\* directional PnL minus the fee, both computed on amount * ratio, and no
\* other field of the position changes; with ratio >= 0.9999 the position
\* becomes closed with close_price set to p.
C21_PartialClose ==
    \A k \in DOMAIN positions, ratio \in C21_Ratios, p \in Prices :
        LET position == positions[k]
            r == close_position(Ledger, k, ratio, p)
            after == r.S.positions[k]
            part == (position.amount * ratio) \div RatioDen
            pnl == IF position.direction = "LONG"
                   THEN ((p - position.entry_price) * part) \div position.entry_price
                   ELSE ((position.entry_price - p) * part) \div position.entry_price
            fee == (part * FeeRateNum) \div FeeRateDen
        IN (position.status = "OPEN" /\ 0 < ratio /\ ratio <= RatioDen) =>
              /\ r.result.success
              /\ ratio < FullCloseRatio =>
                    /\ after.status = "OPEN"
                    /\ after = [position EXCEPT !.amount = after.amount]
                    /\ ExactClose(Ledger, k, ratio) =>
                          /\ after.amount * RatioDen
                                = position.amount * (RatioDen - ratio)
                          /\ r.S.total_balance = total_balance + pnl - fee
              /\ ratio >= FullCloseRatio =>
                    /\ after.status = "CLOSED"
                    /\ after.close_price = p
                    /\ after.amount = position.amount

\* C21 witness: a position still open after a partial close, holding the
\* amount of its open record less the closed fraction
C21_Witness ==
    \E k \in DOMAIN positions, i \in DOMAIN trade_history, j \in DOMAIN trade_history :
        /\ positions[k].status = "OPEN"
        /\ trade_history[j].type = "open_position"
        /\ trade_history[j].position_id = k
        /\ trade_history[i].type = "close_position"
        /\ trade_history[i].position_id = k
        /\ trade_history[i].ratio < FullCloseRatio
        /\ positions[k].amount * RatioDen
              = trade_history[j].amount * (RatioDen - trade_history[i].ratio)
        /\ positions[k].amount < trade_history[j].amount

\* C22: for every ledger and every cycle count c, save_state followed by
\* load_state and restore_executor into a fresh executor gives the same
\* total_balance, last_price, available and margin_used, the same position
\* and plan ids with the same field values and statuses, and returns c.
C22_RoundTrip ==
    \A c \in CycleCounts :
        LET state == load_state(state_file(Ledger, c), TRUE)
            R == restore_executor(FreshLedger(Ledger), state)
        IN /\ R.total_balance = total_balance
           /\ R.last_price = last_price
           /\ get_account_info(R).available = get_account_info(Ledger).available
           /\ get_account_info(R).margin_used = get_account_info(Ledger).margin_used
           /\ DOMAIN R.positions = DOMAIN positions
           /\ \A k \in DOMAIN positions : R.positions[k] = positions[k]
           /\ DOMAIN R.plans = DOMAIN plans
           /\ \A k \in DOMAIN plans : R.plans[k] = plans[k]
           /\ restored_cycle_count(state) = c

\* C22 witness: a saved ledger with two open positions, a plan that is no
\* longer pending and a price cursor, whose restored copy has the same
\* positions and plans
C22_Witness ==
    /\ Cardinality({k \in DOMAIN positions : positions[k].status = "OPEN"}) = 2
    /\ \E k \in DOMAIN plans : plans[k].status # "PENDING"
    /\ last_price # None
    /\ saved.exists
    /\ LET R == restore_executor(FreshLedger(Ledger),
                                 load_state(state_file(Ledger, 7), TRUE))
       IN R.positions = positions /\ R.plans = plans

\* C24: when the state file is absent or cannot be read, load_state returns
\* no state and the engine starts from a fresh ledger: total_balance is the
\* initial balance, there are no positions, no plans and no trade records,
\* last_price is unset and the cycle count is 0.
C24_NoFileStartsFresh ==
    \A readable \in BOOLEAN :
        LET state == load_state(saved, readable)
            R == restore_executor(FreshLedger(Ledger), state)
        IN (~saved.exists \/ ~readable) =>
              /\ state = NoFile
              /\ R.total_balance = InitialBalance
              /\ R.positions = <<>>
              /\ R.plans = <<>>
              /\ R.trade_history = <<>>
              /\ R.last_price = None
              /\ restored_cycle_count(state) = 0

\* C24 witness: the engine has started afresh although the state file
\* holds positions, which only a start with an unreadable file produces
C24_Witness ==
    /\ saved.exists
    /\ saved.positions # <<>>
    /\ positions = <<>> /\ plans = <<>> /\ trade_history = <<>>
    /\ total_balance = InitialBalance
    /\ last_price = None

\* the executor's fields in memory: everything but the state file
InMemory(S) ==
    [total_balance |-> S.total_balance, positions |-> S.positions,
     plans |-> S.plans, trade_history |-> S.trade_history,
     last_price |-> S.last_price, ids |-> S.ids]

\* C23: a command or price update during which the change hook or save_state
\* fails completes with the same result and the same in-memory ledger as
\* when saving succeeds; this holds in every state, those reached through
\* failed saves included, so later commands and updates keep working.
C23_SaveFailureHarmless ==
    /\ \A o \in Orders, p \in Prices :
          /\ LET good == open_position(Ledger, o.direction, o.amount, o.leverage,
                                       o.stop_loss, o.take_profit, p)
                 bad == open_position(Unwritable(Ledger), o.direction, o.amount,
                                      o.leverage, o.stop_loss, o.take_profit, p)
             IN /\ bad.result = good.result /\ bad.raised = good.raised
                /\ InMemory(bad.S) = InMemory(good.S)
          /\ LET good == create_plan(Ledger, p, o.direction, o.amount, o.leverage,
                                     o.stop_loss, o.take_profit)
                 bad == create_plan(Unwritable(Ledger), p, o.direction, o.amount,
                                    o.leverage, o.stop_loss, o.take_profit)
             IN /\ bad.result = good.result /\ bad.raised = good.raised
                /\ InMemory(bad.S) = InMemory(good.S)
    /\ \A k \in PosIds, ratio \in Ratios, p \in Prices :
          ExactClose(Ledger, k, ratio) =>
             LET good == close_position(Ledger, k, ratio, p)
                 bad == close_position(Unwritable(Ledger), k, ratio, p)
             IN /\ bad.result = good.result /\ bad.raised = good.raised
                /\ InMemory(bad.S) = InMemory(good.S)
    /\ \A k \in PosIds, stop_loss \in {None, Edits.price} :
          LET good == modify_position(Ledger, k, stop_loss, None)
              bad == modify_position(Unwritable(Ledger), k, stop_loss, None)
          IN /\ bad.result = good.result /\ bad.raised = good.raised
             /\ InMemory(bad.S) = InMemory(good.S)
    /\ \A k \in PlanIds, kwargs \in PlanEdits :
          LET good == modify_plan(Ledger, k, kwargs)
              bad == modify_plan(Unwritable(Ledger), k, kwargs)
          IN /\ bad.result = good.result /\ bad.raised = good.raised
             /\ InMemory(bad.S) = InMemory(good.S)
    /\ \A k \in PlanIds :
          LET good == cancel_plan(Ledger, k)
              bad == cancel_plan(Unwritable(Ledger), k)
          IN /\ bad.result = good.result /\ bad.raised = good.raised
             /\ InMemory(bad.S) = InMemory(good.S)
    /\ \A p \in Prices :
          LET good == update_price(Ledger, p)
              bad == update_price(Unwritable(Ledger), p)
          IN /\ bad.raised = good.raised
             /\ bad.triggered_plans = good.triggered_plans
             /\ bad.auto_closed_positions = good.auto_closed_positions
             /\ InMemory(bad.S) = InMemory(good.S)

\* C23 witness: no save has ever succeeded, and the ledger holds a position
\* that a command opened and a later price update closed
C23_Witness ==
    /\ ~saved.exists
    /\ last_price # None
    /\ \E k \in DOMAIN positions :
          /\ positions[k].status = "CLOSED"
          /\ Records(k, "open_position") = 1
          /\ Records(k, "close_position") = 1
          /\ \A pl \in PlanIds : k \notin Spawned(pl)

\* a call that returned a result rather than leaving by an exception
Returned(r) == ~r.raised /\ r.result.success \in BOOLEAN

\* C25: every command returns a structured outcome and never leaves by
\* raising, for every argument combination, called directly on the executor
\* as well as through handle_tool_call.
C25_CommandsNeverRaise == EveryCommand(Returned)

\* the ratios of C26: those the commands draw, the ends of (0, 1] and their
\* neighbours
C26_Ratios == Ratios \cup {-5000, 1, FullCloseRatio, RatioDen + 1}

\* C26: close_position fails with a not-found error for an unknown id, with
\* an invalid-state error for a closed position, with a malformed-input
\* error for a ratio outside (0, 1] (either of the two when both apply), and
\* succeeds for every open position with a ratio in (0, 1].
C26_CloseErrors ==
    \A k \in PosIds, ratio \in C26_Ratios, p \in Prices :
        LET r == close_position(Ledger, k, ratio, p)
            inside == 0 < ratio /\ ratio <= RatioDen
        IN IF k \notin DOMAIN positions
           THEN ~r.result.success /\ r.result.error = "not_found"
           ELSE IF positions[k].status = "CLOSED"
           THEN /\ ~r.result.success
                /\ inside => r.result.error = "already_closed"
                /\ r.result.error \in {"already_closed", "bad_ratio"}
           ELSE IF ~inside
           THEN ~r.result.success /\ r.result.error = "bad_ratio"
           ELSE r.result.success

\* C26 witness: the ledger holds a closed position, for which a further
\* close is an invalid-state error, and an open one, which can be closed
C26_Witness ==
    \E k \in DOMAIN positions, j \in DOMAIN positions :
        /\ positions[k].status = "CLOSED"
        /\ positions[j].status = "OPEN"
        /\ Records(k, "close_position") >= 1
        /\ close_position(Ledger, k, RatioDen, 100).result.error = "already_closed"
        /\ close_position(Ledger, j, RatioDen, 100).result.success

\* keyword arguments outside those the modify_plan tool declares
OtherEdits ==
    {NoEdit @@ [direction |-> "short"],
     NoEdit @@ [status |-> "cancelled"]}

\* C27: modify_plan fails for an unknown id and for a plan that is triggered
\* or cancelled, leaving the ledger unchanged; on a pending plan it succeeds
\* and overwrites the supplied ones of trigger_price, amount, leverage,
\* stop_loss and take_profit, every other field of the plan keeping its
\* value.
C27_ModifyPlanFrame ==
    \A k \in PlanIds, kwargs \in PlanEdits \cup OtherEdits :
        LET r == modify_plan(Ledger, k, kwargs)
        IN IF k \notin DOMAIN plans \/ plans[k].status # "PENDING"
           THEN ~r.result.success /\ r.S = Ledger
           ELSE /\ r.result.success
                /\ \A f \in DOMAIN plans[k] :
                      r.S.plans[k][f] =
                         IF f \in PlanFields /\ kwargs[f] # None
                         THEN kwargs[f] ELSE plans[k][f]

\* the sequence old is the beginning of the sequence new
IsPrefix(old, new) ==
    Len(old) <= Len(new) /\ SubSeq(new, 1, Len(old)) = old

\* the number of entries of a result list whose result is a success
Successes(list) ==
    Cardinality({i \in DOMAIN list : list[i].result.success})

\* C28: the trade history is append-only and its saved part is bounded: a
\* successful open_position or close_position appends exactly one record, a
\* failed one and every other command append none, a price update appends
\* one per open and per close it made, and none of them changes an earlier
\* record; a saved snapshot holds at most 100 records, the most recent ones
\* of the history in their order.
C28_HistoryAppendOnly ==
    /\ \A o \in Orders, p \in Prices :
          LET r == open_position(Ledger, o.direction, o.amount, o.leverage,
                                 o.stop_loss, o.take_profit, p)
              c == create_plan(Ledger, p, o.direction, o.amount, o.leverage,
                               o.stop_loss, o.take_profit)
          IN /\ IsPrefix(trade_history, r.S.trade_history)
             /\ Len(r.S.trade_history) = Len(trade_history)
                   + (IF r.result.success THEN 1 ELSE 0)
             /\ c.S.trade_history = trade_history
    /\ \A k \in OpenIds \cup PosIds, ratio \in Ratios, p \in Prices :
          ExactClose(Ledger, k, ratio) =>
             LET r == close_position(Ledger, k, ratio, p)
             IN /\ IsPrefix(trade_history, r.S.trade_history)
                /\ Len(r.S.trade_history) = Len(trade_history)
                      + (IF r.result.success THEN 1 ELSE 0)
    /\ \A k \in OpenIds \cup PosIds, stop_loss \in {None, Edits.price} :
          modify_position(Ledger, k, stop_loss, None).S.trade_history
             = trade_history
    /\ \A k \in PlanIds, kwargs \in PlanEdits :
          /\ modify_plan(Ledger, k, kwargs).S.trade_history = trade_history
          /\ cancel_plan(Ledger, k).S.trade_history = trade_history
    /\ \A p \in Prices :
          LET r == update_price(Ledger, p)
          IN /\ IsPrefix(trade_history, r.S.trade_history)
             /\ ~r.raised =>
                   Len(r.S.trade_history) = Len(trade_history)
                      + Successes(r.triggered_plans)
                      + Successes(r.auto_closed_positions)
    /\ saved.exists =>
          /\ Len(saved.trade_history) <= HistoryKept
          /\ Len(saved.trade_history) <= Len(trade_history)
          /\ \A i \in DOMAIN saved.trade_history :
                saved.trade_history[i] =
                   trade_history[Len(trade_history)
                                    - Len(saved.trade_history) + i]
          /\ Len(trade_history) >= HistoryKept =>
                Len(saved.trade_history) = HistoryKept

\* C28 witness: the history has grown past 100 records and the snapshot
\* holds 100 of them, the last one being the last of the history
C28_Witness ==
    /\ Len(trade_history) > HistoryKept
    /\ saved.exists
    /\ Len(saved.trade_history) = HistoryKept
    /\ saved.trade_history[HistoryKept] = trade_history[Len(trade_history)]
    /\ saved.trade_history[1] # trade_history[1]

\* a command that left last_price as it was
CursorKept(r) == r.S.last_price = last_price

\* C29: last_price is written by update_price alone, after its plan pass
\* and its stop-loss/take-profit pass: neither pass changes last_price, an
\* update that returns leaves it at the price observed, and no command
\* changes it.
C29_CursorWrittenLast ==
    /\ EveryCommand(CursorKept)
    /\ \A p \in Prices :
          LET t == check_and_trigger_plans(Ledger, p)
              c == check_stop_loss_take_profit(t.S, p)
              r == update_price(Ledger, p)
          IN /\ t.S.last_price = last_price
             /\ c.S.last_price = last_price
             /\ ~r.raised => r.S.last_price = p

\* the records that the evaluation r of update_price on the ledger S added
\* to the trade history
Added(S, r) ==
    SubSeq(r.S.trade_history, Len(S.trade_history) + 1, Len(r.S.trade_history))

\* C30 for the evaluation r of update_price(S, p)
OrderedEvaluation(S, r, p) ==
    /\ \A i \in DOMAIN Added(S, r), j \in DOMAIN Added(S, r) :
          (Added(S, r)[i].type = "close_position"
              /\ Added(S, r)[j].type = "open_position") => j < i
    /\ \A i \in DOMAIN r.triggered_plans, j \in DOMAIN r.triggered_plans :
          r.triggered_plans[i].plan_id = r.triggered_plans[j].plan_id => i = j
    /\ \A i \in DOMAIN r.auto_closed_positions,
          j \in DOMAIN r.auto_closed_positions :
          r.auto_closed_positions[i].position_id
             = r.auto_closed_positions[j].position_id => i = j
    /\ \A k \in DOMAIN r.S.positions \ DOMAIN S.positions :
          /\ r.S.positions[k].entry_price = p
          /\ MeetsCondition(r.S.positions[k], p) =>
                /\ r.S.positions[k].status = "CLOSED"
                /\ r.S.positions[k].close_price = p

\* C30: in one update_price evaluation every open made for a plan comes
\* before every stop-loss/take-profit close, no plan and no position is
\* acted on twice, and a position opened for a plan is checked against its
\* stop-loss and take-profit in the same evaluation at its entry price: if
\* it meets the condition it is closed there.  Stated for every ledger
\* reached and for the ledger one more plan away from it, created and then
\* edited by modify_plan.
C30_OpensBeforeCloses ==
    \A p \in Prices :
        /\ OrderedEvaluation(Ledger, update_price(Ledger, p), p)
        /\ \A o \in Orders, trigger_price \in Prices,
              kwargs \in {NoEdit, [NoEdit EXCEPT !.leverage = Edits.leverage]} :
              LET c == create_plan(Ledger, trigger_price, o.direction, o.amount,
                                   o.leverage, o.stop_loss, o.take_profit)
                  m == modify_plan(c.S, c.result.plan_id, kwargs)
              IN (~c.raised /\ c.result.success) =>
                    OrderedEvaluation(m.S, update_price(m.S, p), p)

\* C31: a plan that fires and passes validation creates a position whose
\* entry_price is the price of that update and whose direction, amount,
\* leverage, stop_loss and take_profit are those the plan holds when it
\* fires; the first plan to fire in an update creates its position exactly
\* when validate_position accepts the plan's values at the current price
\* against the account as the update found it.
C31_FiredPlanOpensAtCurrentPrice ==
    \A p \in Prices :
        LET t == check_and_trigger_plans(Ledger, p)
        IN /\ \A i \in DOMAIN t.triggered :
                 LET plan == plans[t.triggered[i].plan_id]
                     res == t.triggered[i].result
                 IN res.success =>
                       /\ res.position_id \notin DOMAIN positions
                       /\ res.entry_price = p
                       /\ t.S.positions[res.position_id]
                             = [direction |-> plan.direction,
                                entry_price |-> p,
                                amount |-> plan.amount,
                                leverage |-> plan.leverage,
                                stop_loss |-> plan.stop_loss,
                                take_profit |-> plan.take_profit,
                                status |-> "OPEN",
                                close_price |-> None,
                                realized_pnl |-> 0]
           /\ t.triggered # <<>> =>
                 LET plan == plans[t.triggered[1].plan_id]
                 IN t.triggered[1].result.success
                       <=> validate_position(Ledger, plan.amount, plan.leverage,
                                             plan.stop_loss, p, plan.direction)
                              = "ok"

\* C31 witness: a position spawned by a plan whose entry price is not the
\* plan's trigger price, the plan holding the values it fired with
C31_Witness ==
    \E pl \in DOMAIN plans, k \in DOMAIN positions :
        /\ k \in Spawned(pl)
        /\ plans[pl].status = "TRIGGERED"
        /\ positions[k].entry_price # plans[pl].trigger_price
        /\ positions[k].entry_price = last_price
        /\ positions[k].amount = plans[pl].amount

\* C32: create_plan accepts an order exactly when open_position accepts it
\* at the trigger price, with the same error otherwise; when it accepts, the
\* ledger gains exactly one plan, pending and holding the order, while
\* total_balance, margin_used, every position, every other plan and
\* trade_history stay as they were; when it refuses, no plan is added.
C32_CreatePlanFrame ==
    \A o \in Orders, p \in Prices :
        LET r == create_plan(Ledger, p, o.direction, o.amount, o.leverage,
                             o.stop_loss, o.take_profit)
            q == open_position(Ledger, o.direction, o.amount, o.leverage,
                               o.stop_loss, o.take_profit, p)
        IN /\ r.raised = q.raised
           /\ r.result.success = q.result.success
           /\ ~r.result.success => r.result.error = q.result.error
           /\ r.S.total_balance = total_balance
           /\ r.S.positions = positions
           /\ r.S.trade_history = trade_history
           /\ r.S.last_price = last_price
           /\ get_account_info(r.S) = get_account_info(Ledger)
           /\ \A k \in DOMAIN plans :
                 k \in DOMAIN r.S.plans /\ r.S.plans[k] = plans[k]
           /\ r.result.success =>
                 /\ r.result.plan_id \notin DOMAIN plans
                 /\ DOMAIN r.S.plans = DOMAIN plans \cup {r.result.plan_id}
                 /\ r.S.plans[r.result.plan_id]
                       = [trigger_price |-> p,
                          direction |-> Direction(o.direction),
                          amount |-> o.amount,
                          leverage |-> o.leverage,
                          stop_loss |-> o.stop_loss,
                          take_profit |-> o.take_profit,
                          status |-> "PENDING"]
           /\ ~r.result.success => r.S.plans = plans

\* C32 witness: a pending plan stored beside an open position, on a ledger
\* where one order is accepted as a plan and another is refused
C32_Witness ==
    /\ \E k \in DOMAIN plans : plans[k].status = "PENDING"
    /\ \E k \in DOMAIN positions : positions[k].status = "OPEN"
    /\ \E o \in Orders, p \in Prices :
          create_plan(Ledger, p, o.direction, o.amount, o.leverage,
                      o.stop_loss, o.take_profit).result.success
    /\ \E o \in Orders, p \in Prices :
          LET r == create_plan(Ledger, p, o.direction, o.amount, o.leverage,
                               o.stop_loss, o.take_profit)
          IN ~r.raised /\ ~r.result.success

\* C33: modify_position fails with the not-found error for an id the ledger
\* does not hold and changes nothing; for a position the ledger holds it
\* succeeds whatever the new values are, stores the supplied stop_loss and
\* take_profit, keeps the one not supplied, and leaves the position's
\* status, amount, entry_price, leverage and direction, every other
\* position, total_balance, the plans and trade_history as they were.
C33_ModifyPositionFrame ==
    \A k \in PosIds \cup DOMAIN positions,
       stop_loss \in Prices \cup {None}, take_profit \in Prices \cup {None} :
        LET r == modify_position(Ledger, k, stop_loss, take_profit)
        IN /\ ~r.raised
           /\ r.S.total_balance = total_balance
           /\ r.S.trade_history = trade_history
           /\ r.S.plans = plans
           /\ r.S.last_price = last_price
           /\ DOMAIN r.S.positions = DOMAIN positions
           /\ \A j \in DOMAIN positions \ {k} : r.S.positions[j] = positions[j]
           /\ k \notin DOMAIN positions =>
                 /\ ~r.result.success
                 /\ r.result.error = "not_found"
                 /\ r.S = Ledger
           /\ k \in DOMAIN positions =>
                 /\ r.result.success
                 /\ r.S.positions[k]
                       = [positions[k] EXCEPT
                            !.stop_loss = IF stop_loss = None THEN @ ELSE stop_loss,
                            !.take_profit = IF take_profit = None THEN @
                                            ELSE take_profit]

\* C33 witness: a position whose stop_loss was replaced by modify_position
\* and whose take_profit is still the one of its order, while another id is
\* unknown to the ledger
C33_Witness ==
    /\ \E k \in DOMAIN positions :
          /\ positions[k].stop_loss = Edits.price
          /\ positions[k].take_profit # Edits.price
          /\ \E i \in DOMAIN trade_history :
                /\ trade_history[i].type = "open_position"
                /\ trade_history[i].position_id = k
                /\ trade_history[i].amount = positions[k].amount
    /\ \E k \in PosIds : k \notin DOMAIN positions

\* the plan ids get_plans() lists in the ledger S
ListedPlanIds(S) == {get_plans(S)[i].plan_id : i \in DOMAIN get_plans(S)}

\* C34: the read operations change nothing: an order that validate_position
\* refuses (get_account_info being read on the way) leaves the whole
\* ledger, the state file included, as it was, and reading the account, the
\* positions and the plans twice gives the same answers; get_positions
\* lists exactly the positions whose status is open and get_plans exactly
\* the plans whose status is pending, each once, with their stored values.
C34_ReadsAreSideEffectFree ==
    /\ \A o \in Orders, p \in Prices :
          LET chk == open_check(Ledger, o.direction, o.amount, o.leverage,
                                o.stop_loss, p)
              r == open_position(Ledger, o.direction, o.amount, o.leverage,
                                 o.stop_loss, o.take_profit, p)
          IN chk # "ok" =>
                /\ r.S = Ledger
                /\ get_account_info(r.S) = get_account_info(Ledger)
                /\ get_positions(r.S) = get_positions(Ledger)
                /\ get_plans(r.S) = get_plans(Ledger)
    /\ ListedIds(Ledger)
          = {k \in DOMAIN positions : positions[k].status = "OPEN"}
    /\ Len(get_positions(Ledger)) = Cardinality(ListedIds(Ledger))
    /\ ListedPlanIds(Ledger)
          = {k \in DOMAIN plans : plans[k].status = "PENDING"}
    /\ Len(get_plans(Ledger)) = Cardinality(ListedPlanIds(Ledger))
    /\ \A i \in DOMAIN get_plans(Ledger) :
          LET e == get_plans(Ledger)[i]
              plan == plans[e.plan_id]
          IN /\ e.trigger_price = plan.trigger_price
             /\ e.direction = EnumValue(plan.direction)
             /\ e.amount = plan.amount
             /\ e.leverage = plan.leverage
             /\ e.stop_loss = plan.stop_loss
             /\ e.take_profit = plan.take_profit
    /\ \A i \in DOMAIN get_positions(Ledger) :
          LET e == get_positions(Ledger)[i]
              pos == positions[e.position_id]
          IN /\ e.entry_price = pos.entry_price
             /\ e.amount = pos.amount
             /\ e.stop_loss = pos.stop_loss
             /\ e.take_profit = pos.take_profit

\* C34 witness: a ledger holding an open and a closed position and a plan
\* that is no longer pending, so that both lists leave something out, with
\* an order that the validator refuses
C34_Witness ==
    /\ \E k \in DOMAIN positions : positions[k].status = "OPEN"
    /\ \E k \in DOMAIN positions : positions[k].status = "CLOSED"
    /\ \E k \in DOMAIN plans : plans[k].status # "PENDING"
    /\ ListedIds(Ledger) # {}
    /\ ListedPlanIds(Ledger) = {}
    /\ \E o \in Orders, p \in Prices :
          open_check(Ledger, o.direction, o.amount, o.leverage, o.stop_loss, p)
             \notin {"ok", "ZeroDivisionError"}

\* C35: update_price always runs to completion: from every reachable ledger
\* and for every price the call returns, last_price is that price
\* afterwards, and every position that was open and whose stop-loss the
\* price meets is closed by the call.
C35_UpdateRunsToCompletion ==
    \A p \in Prices :
        LET u == update_price(Ledger, p)
        IN /\ ~u.raised
           /\ u.S.last_price = p
           /\ \A k \in DOMAIN positions :
                 (/\ positions[k].status = "OPEN"
                  /\ Position_check_stop_loss_take_profit(positions[k], p)
                        = "stop_loss")
                    => u.S.positions[k].status = "CLOSED"

\* C36: two price updates never overlap and are applied in arrival order:
\* at most one callback call is in flight; a message is handed to the
\* callback only when every message handed before it has been applied; the
\* applied messages are in the order in which the socket received them,
\* across reconnects too; and last_price is the price of the last one.
C36_UpdatesInArrivalOrder ==
    /\ Len(feed.running) <= 1
    /\ \A i \in DOMAIN feed.running, j \in DOMAIN feed.applied :
          feed.applied[j].n < feed.running[i].n
    /\ \A i, j \in DOMAIN feed.applied :
          i < j => /\ feed.applied[i].n < feed.applied[j].n
                   /\ feed.applied[i].connection <= feed.applied[j].connection
    /\ \A i \in DOMAIN feed.applied : feed.applied[i].price > 0
    /\ feed.applied # <<>> =>
          last_price = feed.applied[Len(feed.applied)].price

\* C36 witness: two updates applied, received over different connections,
\* and a third message handed to the callback and not yet returned
C36_Witness ==
    /\ Len(feed.applied) = 2
    /\ feed.applied[1].connection # feed.applied[2].connection
    /\ feed.applied[1].price # feed.applied[2].price
    /\ Len(feed.running) = 1

\* what the records of history from the i-th on add to the balance: minus
\* the fee of an open_position record, plus the realized_pnl of a
\* close_position record
RECURSIVE HistorySum(_, _)
HistorySum(history, i) ==
    IF i > Len(history) THEN 0
    ELSE (IF history[i].type = "open_position" THEN 0 - history[i].fee
          ELSE history[i].realized_pnl)
         + HistorySum(history, i + 1)

SameBalance(r) == r.S.total_balance = total_balance

BalanceKeptOnFailure(r) == ~r.result.success => SameBalance(r)

\* C37: balance conservation: in every state reached from a fresh ledger by
\* commands and price updates, total_balance is the initial balance minus
\* the fees of the open_position records plus the realized_pnl of the
\* close_position records of trade_history; create_plan, modify_plan,
\* cancel_plan, modify_position, a command that fails and a price update
\* that opens and closes nothing leave total_balance as it is.
C37_BalanceConservation ==
    /\ total_balance = InitialBalance + HistorySum(trade_history, 1)
    /\ EveryCommand(BalanceKeptOnFailure)
    /\ \A o \in Orders, p \in Prices :
          SameBalance(create_plan(Ledger, p, o.direction, o.amount, o.leverage,
                                  o.stop_loss, o.take_profit))
    /\ \A k \in PlanIds, kwargs \in PlanEdits :
          SameBalance(modify_plan(Ledger, k, kwargs))
    /\ \A k \in PlanIds : SameBalance(cancel_plan(Ledger, k))
    /\ \A k \in PosIds, stop_loss \in {None, Edits.price},
          take_profit \in {None, Edits.price} :
          SameBalance(modify_position(Ledger, k, stop_loss, take_profit))
    /\ \A p \in Prices :
          LET u == update_price(Ledger, p)
          IN (/\ u.auto_closed_positions = <<>>
              /\ \A i \in DOMAIN u.triggered_plans :
                    ~u.triggered_plans[i].result.success)
                => SameBalance(u)

\* C37 witness: a ledger whose history holds an open and a close with a
\* profit or loss, whose balance is not the initial one, with a plan created
\* and a price delivered
C37_Witness ==
    /\ \E i, j \in DOMAIN trade_history :
          /\ trade_history[i].type = "open_position"
          /\ trade_history[j].type = "close_position"
          /\ trade_history[j].realized_pnl + trade_history[j].fee # 0
    /\ total_balance # InitialBalance
    /\ plans # <<>>
    /\ last_price # None

\* the fees of the positions ks of the ledger S
RECURSIVE FeeSum(_, _)
FeeSum(S, ks) ==
    IF ks = {} THEN 0
    ELSE LET k == CHOOSE j \in ks : TRUE
         IN Fee(S.positions[k].amount) + FeeSum(S, ks \ {k})

\* the account as position k of the ledger After found it when a call made
\* on the ledger Before created it: Before, with the positions the same call
\* created ahead of k, each as created and its fee debited
AtCreation(Before, After, k) ==
    LET earlier == {j \in DOMAIN After.positions \ DOMAIN Before.positions : j < k}
    IN [Before EXCEPT
          !.total_balance = Before.total_balance - FeeSum(After, earlier),
          !.positions =
             [j \in DOMAIN Before.positions \cup earlier |->
                 IF j \in earlier
                 THEN [After.positions[j] EXCEPT !.status = "OPEN",
                                                 !.close_price = None,
                                                 !.realized_pnl = 0]
                 ELSE Before.positions[j]]]

\* every position the call created passed the five rules at its entry price
\* against the account of that moment
CreatedPassed(Before, After) ==
    \A k \in DOMAIN After.positions \ DOMAIN Before.positions :
        LET pos == After.positions[k]
        IN validate_position(AtCreation(Before, After, k), pos.amount,
                             pos.leverage, pos.stop_loss, pos.entry_price,
                             pos.direction) = "ok"

\* C38: every position passed all five risk rules, against its own
\* entry_price and the account of that moment, when it was created: those
\* that open_position creates on command, those that a firing plan creates
\* in update_price, and those of a plan that modify_plan changed before the
\* price that fires it.
C38_PositionsPassedValidation ==
    /\ \A o \in Orders, p \in Prices :
          CreatedPassed(Ledger,
                        open_position(Ledger, o.direction, o.amount, o.leverage,
                                      o.stop_loss, o.take_profit, p).S)
    /\ \A p \in Prices : CreatedPassed(Ledger, update_price(Ledger, p).S)
    /\ \A k \in PlanIds, kwargs \in PlanEdits, p \in Prices :
          LET m == modify_plan(Ledger, k, kwargs)
          IN m.result.success => CreatedPassed(m.S, update_price(m.S, p).S)

\* C38 witness: a position spawned by a plan that modify_plan had changed,
\* holding the changed value, next to a plan that, changed, would be refused
\* when it fires
C38_Witness ==
    \E pl \in DOMAIN plans, k \in DOMAIN positions :
        /\ k \in Spawned(pl)
        /\ plans[pl].status = "TRIGGERED"
        /\ plans[pl].stop_loss = Edits.price
        /\ positions[k].stop_loss = Edits.price
        /\ positions[k].entry_price # plans[pl].trigger_price

\* orders with an amount that is not positive
UncheckedOrders ==
    {Order("long", 0 - 20000, 2, 50, 200),
     Order("long", 0, 2, 50, 200)}

\* C39: only well-formed commitments are accepted: open_position and
\* create_plan succeed only with amount > 0 and leverage >= 1; a successful
\* open_position never increases total_balance and never lowers
\* margin_used; and every position of the ledger has
\* 0 < amount/leverage <= amount.
C39_OnlyWellFormedAccepted ==
    /\ \A o \in Orders \cup UncheckedOrders, p \in Prices :
          LET r == open_position(Ledger, o.direction, o.amount, o.leverage,
                                 o.stop_loss, o.take_profit, p)
              c == create_plan(Ledger, p, o.direction, o.amount, o.leverage,
                               o.stop_loss, o.take_profit)
          IN /\ (r.result.success \/ c.result.success)
                   => (o.amount > 0 /\ o.leverage >= 1)
             /\ r.result.success =>
                   /\ r.S.total_balance <= total_balance
                   /\ get_account_info(r.S).margin_used
                         >= get_account_info(Ledger).margin_used
    /\ \A k \in DOMAIN positions :
          /\ positions[k].leverage >= 1
          /\ 0 < positions[k].amount
          /\ positions[k].amount <= positions[k].amount * positions[k].leverage

\* the state files that differ from file in one record that cannot be
\* deserialized: a position whose direction, or a plan whose status, is a
\* value no enum has
Damaged(file) ==
    {[file EXCEPT !.positions[k].direction = "sideways"] :
        k \in DOMAIN file.positions}
    \cup {[file EXCEPT !.plans[k].status = "unknown"] : k \in DOMAIN file.plans}

\* C40: restore_executor is all-or-nothing: when the snapshot holds a
\* position or plan record that cannot be deserialized, the cycle count it
\* returns is 0 and the executor's total_balance, last_price, positions,
\* plans and trade_history are those of the fresh ledger it was given.
C40_RestoreAllOrNothing ==
    saved.exists =>
        \A c \in CycleCounts : \A file \in Damaged(state_file(Ledger, c)) :
            LET fresh == FreshLedger(Ledger)
                state == load_state(file, TRUE)
            IN /\ restored_cycle_count(state) = 0
               /\ InMemory(restore_executor(fresh, state)) = InMemory(fresh)

====
